---- MODULE Spec2Model ----
(***************************************************************************)
(* Queue formation engine of the print shop agent (src/queue_formation.py, *)
(* class QueueManager): deadline clock, priority scorer, sorter and merger. *)
(*                                                                         *)
(* A job is a Python dict; here it is a record with one field per key the  *)
(* engine reads or writes.  A key that is missing from the dict, or holds  *)
(* Python None, is the value None of that field (dict.get returns None in  *)
(* both cases).  Distinct entries of a list are distinct dict objects, as  *)
(* the extractor and dataframe_to_queue produce them.                      *)
(*                                                                         *)
(* Scores are floats in the code.  Here a score is the integer             *)
(*   20 * score = days * (2 * 10*deadline_weight)                          *)
(*              + base_priority * (2*priority_modifier) * (10*weight)      *)
(* so weights are kept in tenths and the modifier in halves.  With weights *)
(* that are multiples of 0.1 the order and the ties of the scaled integers *)
(* are those of the floats (distinct scores differ by at least 0.05).      *)
(***************************************************************************)
EXTENDS Integers, Sequences, FiniteSets, TLC

VARIABLES config, today, current_queue, new_orders, result, raised, lastOp, submitted,
          returned, args, document, store, clock, chat, history, agent

vars == <<config, today, current_queue, new_orders, result, raised, lastOp, submitted,
          returned, args, document, store, clock, chat, history, agent>>

\* what the queue functions neither read nor write: the configuration
\* document, the queue file, the clock of the identifiers, the Telegram chat,
\* the record of what was submitted so far, and the agent with its monitor
\* thread and its drive
outside == <<document, store, clock, chat, history, agent>>

(***************************************************************************)
(* Bounds of the model.                                                    *)
(***************************************************************************)
\* longest queue read from the store before the first call
MaxStored == 2
\* number of new jobs handed to merge_with_existing_queue over a whole run
MaxJobs == 2
\* longest list handed to sort_orders
MaxSortInput == 3
\* number of jobs scored side by side
MaxScored == 2
\* number of deadlines put to the clock side by side
MaxClocked == 2
\* longest queue handed to identify_problematic_orders
MaxScanned == 2
\* longest queue handed to queue_to_dataframe
MaxFormatted == 2
\* largest number of keys of a job handed to queue_to_dataframe
MaxFields == 2

(***************************************************************************)
(* Python values.                                                          *)
(***************************************************************************)
\* dict.get(key) of a missing key or of a key holding None (string fields)
None == "<None>"
\* queue_position missing or None
NoPos == 0
\* priority_score missing or None (dataframe_to_queue stores None)
NoScore == -1

\* A text (the priority hint) is a sequence of characters.  The Cyrillic
\* letters are written in Latin transliteration, one string per letter
\* ("ch" is the single letter of the keyword s-r-o-ch-n-o), capitals for
\* capitals.
\* the priority key holds None or another value that is not a string
NoText == <<"<None>">>
\* the priority key is missing from the dict
MissingText == <<"<missing>">>
EmptyText == <<>>

LowerChar(c) ==
    CASE c = "S" -> "s" [] c = "R" -> "r" [] c = "O" -> "o" [] c = "CH" -> "ch"
      [] c = "N" -> "n" [] c = "V" -> "v" [] c = "Y" -> "y" [] c = "K" -> "k"
      [] c = "I" -> "i" [] c = "J" -> "j" [] c = "Z" -> "z"
      [] OTHER -> c

\* str.lower()
Lower(t) == [i \in 1..Len(t) |-> LowerChar(t[i])]

\* the Python test  needle in text  on strings
Contains(text, needle) ==
    \E i \in 0..(Len(text) - Len(needle)) :
        \A k \in 1..Len(needle) : text[i + k] = needle[k]

KwUrgent == <<"s", "r", "o", "ch", "n", "o">>
KwHigh == <<"v", "y", "s", "o", "k", "i", "j">>
KwLow == <<"n", "i", "z", "k", "i", "j">>
KwNormal == <<"o", "b", "y", "ch", "n", "y", "j">>

(***************************************************************************)
(* Dates.  A deadline is a record: kind "none" (key missing or None),      *)
(* "empty" (the empty string), "text" (a string that is not shaped         *)
(* day.month.year), "dmy" (a string of the shape dd.mm.yyyy with the       *)
(* numbers d, m, y, which need not be a calendar date), "other" (a value   *)
(* that is not a string and is true in a condition: a number, a date).     *)
(***************************************************************************)
NoDeadline == [kind |-> "none", d |-> 0, m |-> 0, y |-> 0]
EmptyDeadline == [kind |-> "empty", d |-> 0, m |-> 0, y |-> 0]
TextDeadline == [kind |-> "text", d |-> 0, m |-> 0, y |-> 0]
OtherDeadline == [kind |-> "other", d |-> 0, m |-> 0, y |-> 0]
Dmy(d, m, y) == [kind |-> "dmy", d |-> d, m |-> m, y |-> y]

IsLeap(y) == (y % 4 = 0 /\ y % 100 # 0) \/ y % 400 = 0

DaysInMonth(m, y) ==
    IF m = 2 THEN (IF IsLeap(y) THEN 29 ELSE 28)
    ELSE IF m \in {4, 6, 9, 11} THEN 30 ELSE 31

\* strptime(s, "%d.%m.%Y") succeeds: the numbers name a day of the calendar
IsCalendarDate(dl) ==
    /\ dl.kind = "dmy"
    /\ dl.y \in 1..9999
    /\ dl.m \in 1..12
    /\ dl.d \in 1..DaysInMonth(dl.m, dl.y)

RECURSIVE DaysBeforeMonth(_, _)
DaysBeforeMonth(m, y) ==
    IF m <= 1 THEN 0 ELSE DaysBeforeMonth(m - 1, y) + DaysInMonth(m - 1, y)

\* date.toordinal(): days since 0001-01-01, that day being 1
Ordinal(dl) ==
    LET y1 == dl.y - 1
    IN  y1 * 365 + (y1 \div 4) - (y1 \div 100) + (y1 \div 400)
        + DaysBeforeMonth(dl.m, dl.y) + dl.d

Max(a, b) == IF a >= b THEN a ELSE b

\* the sentinel of a job without a usable deadline
NoDeadlineDays == 999

\* the difference returned as it is, negative for a past date
UnclampedDays(deadline_str, now) ==
    IF deadline_str.kind \in {"none", "empty"} THEN NoDeadlineDays
    ELSE IF ~IsCalendarDate(deadline_str) THEN NoDeadlineDays
    ELSE Ordinal(deadline_str) - Ordinal(now)

\* the distance between the two dates, whichever comes first
DistanceInDays(deadline_str, now) ==
    IF deadline_str.kind \in {"none", "empty"} THEN NoDeadlineDays
    ELSE IF ~IsCalendarDate(deadline_str) THEN NoDeadlineDays
    ELSE Max(Ordinal(deadline_str) - Ordinal(now), Ordinal(now) - Ordinal(deadline_str))

\* strptime raises ValueError on a string that is no date and TypeError on a
\* value that is no string; both handlers return the sentinel
_calculate_days_to_deadline(deadline_str, now) ==
    IF deadline_str.kind \in {"none", "empty"} THEN NoDeadlineDays
    ELSE IF ~IsCalendarDate(deadline_str) THEN NoDeadlineDays
    ELSE Max(Ordinal(deadline_str) - Ordinal(now), 0)

(***************************************************************************)
(* Configuration (QueueManager.__init__), weights in tenths.               *)
(***************************************************************************)
DefaultConfig ==
    [deadline_weight |-> 7, customer_priority_weight |-> 3, emergency_threshold_days |-> 3]

Configs == {DefaultConfig}

(***************************************************************************)
(* Priority scorer.                                                        *)
(***************************************************************************)
\* order.get('priority', '').lower() raises AttributeError on a value that
\* is not a string
ScoreRaises(order) == order.priority = NoText

\* the low keyword tested ahead of the urgent and high keywords
LowFirstModifier(priority) ==
    LET priority_text == Lower(IF priority = MissingText THEN EmptyText ELSE priority)
    IN  IF Contains(priority_text, KwLow) THEN 4
        ELSE IF Contains(priority_text, KwUrgent) \/ Contains(priority_text, KwHigh) THEN 1
        ELSE 2

\* twice the priority_modifier: 0.5 -> 1, 1.0 -> 2, 2.0 -> 4
PriorityModifier(priority) ==
    LET priority_text == Lower(IF priority = MissingText THEN EmptyText ELSE priority)
    IN  IF Contains(priority_text, KwUrgent) \/ Contains(priority_text, KwHigh) THEN 1
        ELSE IF Contains(priority_text, KwLow) THEN 4
        ELSE 2

\* the two bands exchanged
ReversedBands(days_to_deadline, cfg) ==
    IF days_to_deadline <= cfg.emergency_threshold_days THEN 3 ELSE 1

BasePriority(days_to_deadline, cfg) ==
    IF days_to_deadline <= cfg.emergency_threshold_days THEN 1 ELSE 3

\* 20 * total_score
_calculate_priority_score(order, cfg, now) ==
    LET days_to_deadline == _calculate_days_to_deadline(order.deadline, now)
        deadline_factor == days_to_deadline * (2 * cfg.deadline_weight)
        priority_factor == BasePriority(days_to_deadline, cfg)
                             * PriorityModifier(order.priority)
                             * cfg.customer_priority_weight
    IN  deadline_factor + priority_factor

(***************************************************************************)
(* Sorter.                                                                 *)
(***************************************************************************)
\* variant: x goes ahead of the elements of equal key (a sort that is not
\* stable)
RECURSIVE InsertBeforeEqual(_, _)
InsertBeforeEqual(s, x) ==
    IF s = <<>> THEN <<x>>
    ELSE IF x.priority_score <= Head(s).priority_score THEN <<x>> \o s
    ELSE <<Head(s)>> \o InsertBeforeEqual(Tail(s), x)

\* place x behind every element whose key is not greater
RECURSIVE InsertByScore(_, _)
InsertByScore(s, x) ==
    IF s = <<>> THEN <<x>>
    ELSE IF x.priority_score < Head(s).priority_score THEN <<x>> \o s
    ELSE <<Head(s)>> \o InsertByScore(Tail(s), x)

\* sorted(orders, key=priority_score): ascending and stable
RECURSIVE Sorted(_)
Sorted(s) ==
    IF s = <<>> THEN <<>>
    ELSE InsertByScore(Sorted(SubSeq(s, 1, Len(s) - 1)), s[Len(s)])

\* variant: a job that already has a priority_score keeps it
SortByStoredScore(orders, cfg, now) ==
    Sorted([i \in 1..Len(orders) |->
        IF orders[i].priority_score # NoScore THEN orders[i]
        ELSE [orders[i] EXCEPT !.priority_score =
                                  _calculate_priority_score(orders[i], cfg, now)]])

SortRaises(orders) == \E i \in 1..Len(orders) : ScoreRaises(orders[i])

sort_orders(orders, cfg, now) ==
    Sorted([i \in 1..Len(orders) |->
              [orders[i] EXCEPT !.priority_score =
                                   _calculate_priority_score(orders[i], cfg, now)]])

(***************************************************************************)
(* Merger.                                                                 *)
(***************************************************************************)
\* truth value of an order_id in  if order_id and ...
Truthy(order_id) == order_id # None /\ order_id # ""

\* {order.get('order_id') for order in queue}
OrderIds(queue) == {queue[i].order_id : i \in 1..Len(queue)}

\* index of the first job of the queue with that order_id (the loop with break)
FirstIndex(queue, order_id) ==
    CHOOSE i \in 1..Len(queue) :
        /\ queue[i].order_id = order_id
        /\ \A k \in 1..(i - 1) : queue[k].order_id # order_id

\* variant: the new job is added although its order_id is in the queue
AppendAgain(queue, order) == Append(queue, order)

\* variant: the queue job stays as it is, the new job is ignored
KeepExisting(queue, order) == queue

\* current_queue[i] = order, then the old queue_position is put back
UpdateExisting(queue, order) ==
    LET i == FirstIndex(queue, order.order_id)
        queue_position == queue[i].queue_position
    IN  [queue EXCEPT ![i] =
            IF queue_position # NoPos
            THEN [order EXCEPT !.queue_position = queue_position]
            ELSE order]

\* the loop  for order in new_orders  over the queue and the id set
RECURSIVE MergeLoop(_, _, _)
MergeLoop(orders, queue, existing_order_ids) ==
    IF orders = <<>> THEN queue
    ELSE LET order == Head(orders)
             order_id == order.order_id
         IN  IF Truthy(order_id) /\ order_id \notin existing_order_ids
             THEN MergeLoop(Tail(orders), Append(queue, order),
                            existing_order_ids \cup {order_id})
             ELSE IF order_id \in existing_order_ids
             THEN MergeLoop(Tail(orders), UpdateExisting(queue, order),
                            existing_order_ids)
             ELSE MergeLoop(Tail(orders), queue, existing_order_ids)

\* variant: the positions stay as they were before the sort
NoRenumber(queue) == queue

\* for i, order in enumerate(updated_queue): order['queue_position'] = i + 1
Renumber(queue) ==
    [i \in 1..Len(queue) |-> [queue[i] EXCEPT !.queue_position = i]]

\* variant: the queue is rebuilt from the jobs that have an order_id
MergedIdentified(orders, queue) ==
    MergeLoop(orders,
              SelectSeq(queue, LAMBDA job : Truthy(job.order_id)),
              OrderIds(queue))

\* variant: the merged list reaches the sort from its end
MergedBackwards(orders, queue) ==
    LET merged == MergeLoop(orders, queue, OrderIds(queue))
    IN  [i \in 1..Len(merged) |-> merged[Len(merged) + 1 - i]]

MergedQueue(orders, queue) == MergeLoop(orders, queue, OrderIds(queue))

merge_with_existing_queue(orders, queue, cfg, now) ==
    Renumber(sort_orders(MergedQueue(orders, queue), cfg, now))

(***************************************************************************)
(* The same two functions on the objects they are handed.  The jobs are    *)
(* dicts and the lists hold references to them: a heap is the sequence of  *)
(* the dicts, a list the sequence of their places in the heap.  The dicts  *)
(* of a call are taken to be distinct objects: those of the queue at the   *)
(* places 1..Len(queue) of the heap, those of the new orders after them.   *)
(***************************************************************************)
NoArgs == [current_queue |-> <<>>, new_orders |-> <<>>]

Deref(refs, heap) == [i \in 1..Len(refs) |-> heap[refs[i]]]

\* the places first..last of the heap, as a list of references
RECURSIVE Places(_, _)
Places(first, last) ==
    IF first > last THEN <<>> ELSE <<first>> \o Places(first + 1, last)

\* for order in orders: order['priority_score'] = ...  writes into the dict
ScoreObjects(refs, heap, cfg, now) ==
    [r \in 1..Len(heap) |->
        IF r \in {refs[i] : i \in 1..Len(refs)}
        THEN [heap[r] EXCEPT !.priority_score = _calculate_priority_score(heap[r], cfg, now)]
        ELSE heap[r]]

\* sorted(...) builds a new list of the same dicts
SortedRefs(refs, heap) ==
    LET keyed == Sorted([i \in 1..Len(refs) |->
                           [ref |-> refs[i], priority_score |-> heap[refs[i]].priority_score]])
    IN  [i \in 1..Len(keyed) |-> keyed[i].ref]

\* for i, order in enumerate(updated_queue): order['queue_position'] = i + 1
NumberObjects(refs, heap) ==
    [r \in 1..Len(heap) |->
        IF \E i \in 1..Len(refs) : refs[i] = r
        THEN [heap[r] EXCEPT !.queue_position = CHOOSE i \in 1..Len(refs) : refs[i] = r]
        ELSE heap[r]]

\* the loop of merge_with_existing_queue: append and item assignment act on
\* the list current_queue itself, the restored position is written into the
\* dict of the new order
RECURSIVE MergeObjects(_, _, _, _)
MergeObjects(news, refs, heap, existing_order_ids) ==
    IF news = <<>> THEN [refs |-> refs, heap |-> heap]
    ELSE LET r == Head(news)
             order_id == heap[r].order_id
         IN  IF Truthy(order_id) /\ order_id \notin existing_order_ids
             THEN MergeObjects(Tail(news), Append(refs, r), heap,
                               existing_order_ids \cup {order_id})
             ELSE IF order_id \in existing_order_ids
             THEN LET i == CHOOSE k \in 1..Len(refs) :
                               /\ heap[refs[k]].order_id = order_id
                               /\ \A j \in 1..(k - 1) : heap[refs[j]].order_id # order_id
                      queue_position == heap[refs[i]].queue_position
                  IN  MergeObjects(Tail(news), [refs EXCEPT ![i] = r],
                                   IF queue_position # NoPos
                                   THEN [heap EXCEPT ![r].queue_position = queue_position]
                                   ELSE heap,
                                   existing_order_ids)
             ELSE MergeObjects(Tail(news), refs, heap, existing_order_ids)

\* the two argument lists and the returned list when the merge has returned
MergeOnObjects(orders, queue, cfg, now) ==
    LET n == Len(queue)
        merged == MergeObjects(Places(n + 1, n + Len(orders)), Places(1, n),
                               queue \o orders, OrderIds(queue))
        scored == ScoreObjects(merged.refs, merged.heap, cfg, now)
        updated_queue == SortedRefs(merged.refs, scored)
        heap == NumberObjects(updated_queue, scored)
    IN  [current_queue |-> Deref(merged.refs, heap),
         new_orders |-> Deref(Places(n + 1, n + Len(orders)), heap),
         returned |-> Deref(updated_queue, heap)]

\* the argument list when sort_orders has returned
SortOnObjects(orders, cfg, now) ==
    LET refs == Places(1, Len(orders))
        heap == ScoreObjects(refs, orders, cfg, now)
    IN  [current_queue |-> Deref(refs, heap), new_orders |-> <<>>]

\* the scoring loop that raises on a dict: the dicts before it have their
\* score written
ScoreObjectsUntilRaise(refs, heap, cfg, now) ==
    [r \in 1..Len(heap) |->
        IF \E i \in 1..Len(refs) :
               refs[i] = r /\ \A j \in 1..i : ~ScoreRaises(heap[refs[j]])
        THEN [heap[r] EXCEPT !.priority_score = _calculate_priority_score(heap[r], cfg, now)]
        ELSE heap[r]]

\* the two argument lists when the sort inside the merge has raised
MergeRaisedOnObjects(orders, queue, cfg, now) ==
    LET n == Len(queue)
        merged == MergeObjects(Places(n + 1, n + Len(orders)), Places(1, n),
                               queue \o orders, OrderIds(queue))
        heap == ScoreObjectsUntilRaise(merged.refs, merged.heap, cfg, now)
    IN  [current_queue |-> Deref(merged.refs, heap),
         new_orders |-> Deref(Places(n + 1, n + Len(orders)), heap)]

\* the argument list when sort_orders has raised
SortRaisedOnObjects(orders, cfg, now) ==
    LET refs == Places(1, Len(orders))
    IN  [current_queue |-> Deref(refs, ScoreObjectsUntilRaise(refs, orders, cfg, now)),
         new_orders |-> <<>>]

(***************************************************************************)
(* Inputs: the reference date, the queue read from the store and the jobs  *)
(* the extractor delivers.                                                 *)
(***************************************************************************)
ReferenceDates == {Dmy(28, 2, 2024)}

OrderIdValues == {None, "", "A", "B"}

\* one day ahead of the reference date, inside the emergency band
Tomorrow == Dmy(29, 2, 2024)

Job(id, cust, dl, pr, proc, created, pos, score) ==
    [order_id |-> id, customer |-> cust, deadline |-> dl, priority |-> pr,
     processed_at |-> proc, created_at |-> created,
     queue_position |-> pos, priority_score |-> score]

\* a job as the extractor delivers it: a deadline, a priority hint, the
\* processed_at stamp of this extraction, no position and no score
NewJobs ==
    {Job(id, "new", Tomorrow, pr, "t2", None, NoPos, NoScore) :
        id \in OrderIdValues, pr \in {KwUrgent, KwNormal}}

\* a row of the stored table: either one an earlier cycle wrote (stamps, a
\* position and a score that are out of date by now) or a bare one without
\* deadline, stamps, position and score
StoredJobs ==
    {Job(id, "old", Tomorrow, KwNormal, "t1", "t0", 9, 0) : id \in OrderIdValues}
    \cup
    {Job(id, "old", NoDeadline, MissingText, None, None, NoPos, NoScore) :
        id \in OrderIdValues}

SeqsUpTo(S, n) == UNION {[1..k -> S] : k \in 0..n}

\* order_id is unique within a queue (jobs without an id may repeat)
UniqueIds(queue) ==
    \A i, k \in 1..Len(queue) :
        (i # k /\ Truthy(queue[i].order_id)) => queue[i].order_id # queue[k].order_id

StoredQueues == {q \in SeqsUpTo(StoredJobs, MaxStored) : UniqueIds(q)}

(***************************************************************************)
(* State machine.  result is the queue in the caller's hands: the list the  *)
(* last sort or merge returned (at the start the queue read from the       *)
(* store), or the list handed to a call that returns something else, as    *)
(* that call left it.  current_queue and new_orders are the arguments of   *)
(* the last call as they were when it was made, args the same two lists as *)
(* a sort or a merge left them.  returned is what a call that returns no   *)
(* queue gave back: one number per job from the clock and the scorer, the  *)
(* list of problem entries from the scan.                                  *)
(***************************************************************************)
\* no configuration document read, no queue file, the clock at its start, no
\* chat, nothing submitted, no agent
Idle ==
    /\ document = None
    /\ store = None
    /\ clock = 0
    /\ chat = None
    /\ history = <<>>
    /\ agent = None

Init ==
    /\ config \in Configs
    /\ today \in ReferenceDates
    /\ result \in StoredQueues
    /\ current_queue = <<>>
    /\ new_orders = <<>>
    /\ raised = FALSE
    /\ lastOp = "load"
    /\ submitted = 0
    /\ returned = <<>>
    /\ args = NoArgs
    /\ Idle

\* merge_with_existing_queue(batch, result)
MergeWithExistingQueue(batch) ==
    /\ submitted + Len(batch) <= MaxJobs
    /\ current_queue' = result
    /\ new_orders' = batch
    /\ submitted' = submitted + Len(batch)
    /\ lastOp' = "merge"
    /\ IF SortRaises(MergedQueue(batch, result))
       THEN /\ raised' = TRUE
            /\ result' = result
       ELSE /\ raised' = FALSE
            /\ result' = merge_with_existing_queue(batch, result, config, today)
    /\ UNCHANGED <<config, today, returned>>
    /\ UNCHANGED <<args, outside>>

\* sort_orders(result), on a list that sort_orders did not just return
SortOrders ==
    /\ lastOp \in {"load", "merge"}
    /\ current_queue' = result
    /\ new_orders' = <<>>
    /\ lastOp' = "sort"
    /\ IF SortRaises(result)
       THEN /\ raised' = TRUE
            /\ result' = result
       ELSE /\ raised' = FALSE
            /\ result' = sort_orders(result, config, today)
    /\ UNCHANGED <<config, today, submitted, returned>>
    /\ UNCHANGED <<args, outside>>

\* sort_orders(sort_orders(jobs)): the call on the list sort_orders returned
SortAgain ==
    /\ lastOp \in {"sort", "resort"}
    /\ ~raised
    /\ current_queue' = result
    /\ new_orders' = <<>>
    /\ lastOp' = "resort"
    /\ raised' = FALSE
    /\ result' = sort_orders(result, config, today)
    /\ UNCHANGED <<config, today, submitted, returned>>
    /\ UNCHANGED <<args, outside>>

\* merge cycles: every call is fed the queue the call before returned
Next == \E batch \in SeqsUpTo(NewJobs, MaxJobs - submitted) : MergeWithExistingQueue(batch)

Spec == Init /\ [][Next]_vars

\* the same calls with the argument objects watched: args keeps the two
\* argument lists, and the dicts in them, as they are when the call is over
MergeArguments(batch) ==
    /\ submitted + Len(batch) <= MaxJobs
    /\ current_queue' = result
    /\ new_orders' = batch
    /\ submitted' = submitted + Len(batch)
    /\ lastOp' = "merge"
    /\ IF SortRaises(MergedQueue(batch, result))
       THEN /\ raised' = TRUE
            /\ result' = result
            /\ args' = MergeRaisedOnObjects(batch, result, config, today)
       ELSE /\ raised' = FALSE
            /\ LET after == MergeOnObjects(batch, result, config, today)
               IN  /\ result' = after.returned
                   /\ args' = [current_queue |-> after.current_queue,
                               new_orders |-> after.new_orders]
    /\ UNCHANGED <<config, today, returned>>
    /\ UNCHANGED outside

SortArguments ==
    /\ lastOp \in {"load", "merge"}
    /\ current_queue' = result
    /\ new_orders' = <<>>
    /\ lastOp' = "sort"
    /\ IF SortRaises(result)
       THEN /\ raised' = TRUE
            /\ result' = result
            /\ args' = SortRaisedOnObjects(result, config, today)
       ELSE /\ raised' = FALSE
            /\ result' = sort_orders(result, config, today)
            /\ args' = SortOnObjects(result, config, today)
    /\ UNCHANGED <<config, today, submitted, returned>>
    /\ UNCHANGED outside

ArgumentsNext ==
    \/ \E batch \in SeqsUpTo(NewJobs, MaxJobs - submitted) : MergeArguments(batch)
    \/ SortArguments

ArgumentsSpec == Init /\ [][ArgumentsNext]_vars

\* sort_orders as a function of its argument: any list of jobs, in any order,
\* with or without repeated order_ids
SortInputs == SeqsUpTo(StoredJobs \cup NewJobs, MaxSortInput)

SortInit ==
    /\ config \in Configs
    /\ today \in ReferenceDates
    /\ result \in SortInputs
    /\ current_queue = <<>>
    /\ new_orders = <<>>
    /\ raised = FALSE
    /\ lastOp = "load"
    /\ submitted = 0
    /\ returned = <<>>
    /\ args = NoArgs
    /\ Idle

SortNext == SortOrders \/ SortAgain

SortSpec == SortInit /\ [][SortNext]_vars

\* sort_orders on jobs that differ in deadline and priority hint: due in one,
\* two and five days, marked urgent or normal
InDays1 == Dmy(29, 2, 2024)
InDays2 == Dmy(1, 3, 2024)
InDays5 == Dmy(4, 3, 2024)

HintedJobs ==
    {Job("A", "new", dl, pr, "t2", None, NoPos, NoScore) :
        dl \in {InDays1, InDays2, InDays5}, pr \in {KwUrgent, KwNormal}}

HintedInit ==
    /\ config \in Configs
    /\ today \in ReferenceDates
    /\ result \in SeqsUpTo(HintedJobs, MaxSortInput)
    /\ current_queue = <<>>
    /\ new_orders = <<>>
    /\ raised = FALSE
    /\ lastOp = "load"
    /\ submitted = 0
    /\ returned = <<>>
    /\ args = NoArgs
    /\ Idle

HintedSpec == HintedInit /\ [][SortNext]_vars

\* sort_orders on jobs without a usable deadline and jobs due far ahead:
\* 998, 999 and 1000 days after the reference date
InDays998 == Dmy(22, 11, 2026)
InDays999 == Dmy(23, 11, 2026)
InDays1000 == Dmy(24, 11, 2026)

Unusable(deadline) == deadline.kind \in {"none", "empty"} \/ ~IsCalendarDate(deadline)

FarJobs ==
    {Job("A", "new", dl, pr, "t2", None, NoPos, NoScore) :
        dl \in {NoDeadline, TextDeadline, InDays998, InDays999, InDays1000},
        pr \in {KwUrgent, KwNormal}}

FarInit ==
    /\ config \in Configs
    /\ today \in ReferenceDates
    /\ result \in SeqsUpTo(FarJobs, MaxSortInput)
    /\ current_queue = <<>>
    /\ new_orders = <<>>
    /\ raised = FALSE
    /\ lastOp = "load"
    /\ submitted = 0
    /\ returned = <<>>
    /\ args = NoArgs
    /\ Idle

FarSpec == FarInit /\ [][SortNext]_vars

\* _calculate_priority_score on its own, on every job of a list, under
\* several configurations.  Weights are in tenths.
ScoreConfigs ==
    {DefaultConfig,
     [deadline_weight |-> 0, customer_priority_weight |-> 10, emergency_threshold_days |-> 3],
     [deadline_weight |-> 3, customer_priority_weight |-> 7, emergency_threshold_days |-> 0]}

Yesterday == Dmy(27, 2, 2024)
InDays3 == Dmy(2, 3, 2024)
InDays4 == Dmy(3, 3, 2024)

ScoredDeadlines == {Yesterday, Tomorrow, InDays3, InDays4, NoDeadline}

KwUrgentCaps == <<"S", "R", "O", "CH", "N", "O">>
LowAndUrgent == KwLow \o <<",", " ">> \o KwUrgent

ScoredHints ==
    {MissingText, KwNormal, KwUrgent, KwUrgentCaps, KwHigh, KwLow, LowAndUrgent, NoText}

ScoredJobs ==
    {Job("A", "new", dl, pr, "t2", None, NoPos, NoScore) :
        dl \in ScoredDeadlines, pr \in ScoredHints}

ScoreInit ==
    /\ config \in ScoreConfigs
    /\ today \in ReferenceDates
    /\ result \in SeqsUpTo(ScoredJobs, MaxScored)
    /\ current_queue = <<>>
    /\ new_orders = <<>>
    /\ raised = FALSE
    /\ lastOp = "load"
    /\ submitted = 0
    /\ returned = <<>>
    /\ args = NoArgs
    /\ Idle

\* [self._calculate_priority_score(order) for order in jobs]
CalculatePriorityScore ==
    /\ lastOp = "load"
    /\ current_queue' = result
    /\ new_orders' = <<>>
    /\ lastOp' = "score"
    /\ IF \E i \in 1..Len(result) : ScoreRaises(result[i])
       THEN raised' = TRUE /\ returned' = <<>>
       ELSE /\ raised' = FALSE
            /\ returned' = [i \in 1..Len(result) |->
                               _calculate_priority_score(result[i], config, today)]
    /\ UNCHANGED <<config, today, result, submitted>>
    /\ UNCHANGED <<args, outside>>

ScoreNext == CalculatePriorityScore

ScoreSpec == ScoreInit /\ [][ScoreNext]_vars

\* _calculate_days_to_deadline on its own, on the deadline of every job of a
\* list, on several reference dates (datetime.now().date())
ClockDates == {Dmy(28, 2, 2024), Dmy(31, 12, 2023), Dmy(28, 2, 2023)}

\* strings of the shape dd.mm.yyyy that name no day of the calendar
NotOnCalendar == {Dmy(31, 2, 2024), Dmy(29, 2, 2023), Dmy(0, 1, 2024), Dmy(1, 13, 2024)}

ClockedDeadlines ==
    {Yesterday, Dmy(28, 2, 2024), Tomorrow, Dmy(6, 3, 2024), Dmy(31, 12, 2023),
     Dmy(1, 1, 2024), Dmy(1, 3, 2023),
     NoDeadline, EmptyDeadline, TextDeadline, OtherDeadline} \cup NotOnCalendar

ClockedJobs ==
    {Job("A", "new", dl, KwNormal, "t2", None, NoPos, NoScore) : dl \in ClockedDeadlines}

ClockInit ==
    /\ config \in Configs
    /\ today \in ClockDates
    /\ result \in SeqsUpTo(ClockedJobs, MaxClocked)
    /\ current_queue = <<>>
    /\ new_orders = <<>>
    /\ raised = FALSE
    /\ lastOp = "load"
    /\ submitted = 0
    /\ returned = <<>>
    /\ args = NoArgs
    /\ Idle

\* [self._calculate_days_to_deadline(order.get('deadline', '')) for order in jobs]
CalculateDaysToDeadline ==
    /\ lastOp = "load"
    /\ current_queue' = result
    /\ new_orders' = <<>>
    /\ lastOp' = "clock"
    /\ raised' = FALSE
    /\ returned' = [i \in 1..Len(result) |->
                       _calculate_days_to_deadline(result[i].deadline, today)]
    /\ UNCHANGED <<config, today, result, submitted>>
    /\ UNCHANGED <<args, outside>>

ClockNext == CalculateDaysToDeadline

ClockSpec == ClockInit /\ [][ClockNext]_vars

(***************************************************************************)
(* Problem scan (identify_problematic_orders).  A problem is a record: the *)
(* message, and the number of days the message carries (0 when it carries  *)
(* none).                                                                  *)
(***************************************************************************)
Problem(message) == [problem |-> message, days |-> 0]
ProblemDays(message, n) == [problem |-> message, days |-> n]

\* strptime(deadline, ...) raises TypeError on a value that is not a
\* string; the scan handles ValueError only
ScanRaises(queue) == \E i \in 1..Len(queue) : queue[i].deadline.kind = "other"

\* the days taken from the clock, clamped at 0 and 999 for a bad date
ClockDeadlineProblems(deadline, cfg, now) ==
    IF deadline.kind \in {"none", "empty"} THEN <<Problem("missing deadline")>>
    ELSE LET days_to_deadline == _calculate_days_to_deadline(deadline, now)
         IN  IF days_to_deadline < 0
             THEN <<ProblemDays("overdue", 0 - days_to_deadline)>>
             ELSE IF days_to_deadline <= cfg.emergency_threshold_days
             THEN <<ProblemDays("urgent", days_to_deadline)>>
             ELSE <<>>

\* a job due exactly at the threshold not counted as urgent
StrictDeadlineProblems(deadline, cfg, now) ==
    IF deadline.kind \in {"none", "empty"} THEN <<Problem("missing deadline")>>
    ELSE IF ~IsCalendarDate(deadline) THEN <<Problem("invalid deadline format")>>
    ELSE LET days_to_deadline == Ordinal(deadline) - Ordinal(now)
         IN  IF days_to_deadline < 0
             THEN <<ProblemDays("overdue", 0 - days_to_deadline)>>
             ELSE IF days_to_deadline < cfg.emergency_threshold_days
             THEN <<ProblemDays("urgent", days_to_deadline)>>
             ELSE <<>>

\* the deadline check of one job (a deadline that is a string or missing)
DeadlineProblems(deadline, cfg, now) ==
    IF deadline.kind \in {"none", "empty"} THEN <<Problem("missing deadline")>>
    ELSE IF ~IsCalendarDate(deadline) THEN <<Problem("invalid deadline format")>>
    ELSE LET days_to_deadline == Ordinal(deadline) - Ordinal(now)
         IN  IF days_to_deadline < 0
             THEN <<ProblemDays("overdue", 0 - days_to_deadline)>>
             ELSE IF days_to_deadline <= cfg.emergency_threshold_days
             THEN <<ProblemDays("urgent", days_to_deadline)>>
             ELSE <<>>

\* the list  problems  of one job
Problems(order, cfg, now) ==
    (IF ~Truthy(order.order_id) THEN <<Problem("missing order number")>> ELSE <<>>)
    \o (IF ~Truthy(order.customer) THEN <<Problem("missing customer")>> ELSE <<>>)
    \o (IF ~Truthy(order.quantity) THEN <<Problem("missing quantity")>> ELSE <<>>)
    \o DeadlineProblems(order.deadline, cfg, now)

\* a dict with one more key
WithProblems(order, problems) ==
    [f \in DOMAIN order \cup {"problems"} |->
        IF f = "problems" THEN problems ELSE order[f]]

\* problems written into the job of the queue, the same dict reported
AnnotateInPlace(order, problems) ==
    [order |-> WithProblems(order, problems),
     problem_info |-> WithProblems(order, problems)]

\* problem_info = order.copy(); problem_info['problems'] = problems
\* gives the job of the queue as the two statements leave it, and the copy
Annotate(order, problems) ==
    [order |-> order, problem_info |-> WithProblems(order, problems)]

\* the loop over one job: the job as the loop leaves it, and what it appends
\* to problematic_orders
ScanOrder(order, cfg, now) ==
    LET problems == Problems(order, cfg, now)
    IN  IF problems # <<>>
        THEN LET a == Annotate(order, problems)
             IN  [order |-> a.order, appended |-> <<a.problem_info>>]
        ELSE [order |-> order, appended |-> <<>>]

\* the queue of the caller after the scan
ScannedQueue(queue, cfg, now) ==
    [i \in 1..Len(queue) |-> ScanOrder(queue[i], cfg, now).order]

RECURSIVE identify_problematic_orders(_, _, _)
identify_problematic_orders(queue, cfg, now) ==
    IF queue = <<>> THEN <<>>
    ELSE ScanOrder(Head(queue), cfg, now).appended
         \o identify_problematic_orders(Tail(queue), cfg, now)

\* the scan, the clock and the sorter on queues of jobs with missing, empty
\* and malformed fields
ScannedJob(id, cust, qty, dl, pr) ==
    [order_id |-> id, customer |-> cust, quantity |-> qty, deadline |-> dl,
     priority |-> pr, processed_at |-> "t2", created_at |-> None,
     queue_position |-> NoPos, priority_score |-> NoScore]

ScannedDeadlines ==
    {Yesterday, Dmy(31, 12, 2023), Dmy(28, 2, 2024), InDays3, InDays4,
     Dmy(31, 2, 2024), TextDeadline, EmptyDeadline, NoDeadline, OtherDeadline}

ScannedFields ==
    {<<"A", "c", "500">>, <<"", "c", "500">>, <<"A", None, "500">>,
     <<"A", "c", None>>, <<None, "", "">>}

ScannedJobs ==
    {ScannedJob(f[1], f[2], f[3], dl, KwNormal) : f \in ScannedFields, dl \in ScannedDeadlines}
    \cup {ScannedJob("A", "c", "500", dl, NoText) : dl \in {Dmy(31, 2, 2024), InDays4}}

ScanInit ==
    /\ config \in Configs
    /\ today \in ReferenceDates
    /\ result \in SeqsUpTo(ScannedJobs, MaxScanned)
    /\ current_queue = <<>>
    /\ new_orders = <<>>
    /\ raised = FALSE
    /\ lastOp = "load"
    /\ submitted = 0
    /\ returned = <<>>
    /\ args = NoArgs
    /\ Idle

IdentifyProblematicOrders ==
    /\ lastOp = "load"
    /\ current_queue' = result
    /\ new_orders' = <<>>
    /\ lastOp' = "identify"
    /\ IF ScanRaises(result)
       THEN raised' = TRUE /\ returned' = <<>> /\ result' = result
       ELSE /\ raised' = FALSE
            /\ returned' = identify_problematic_orders(result, config, today)
            /\ result' = ScannedQueue(result, config, today)
    /\ UNCHANGED <<config, today, submitted>>
    /\ UNCHANGED <<args, outside>>

ScanNext == IdentifyProblematicOrders \/ CalculateDaysToDeadline \/ SortOrders

ScanSpec == ScanInit /\ [][ScanNext]_vars

(***************************************************************************)
(* Table conversion (queue_to_dataframe, dataframe_to_queue).  Here a job  *)
(* is a Python dict with its own keys in their own order: a sequence of    *)
(* entries [key, value] with distinct keys.  A table (DataFrame) is the    *)
(* sequence of its column names and, row by row, the cells in the order of *)
(* the columns.  Cell values are strings; NaN is the cell of a key a job   *)
(* does not have.  The display labels are written in Latin letters.        *)
(***************************************************************************)
NaN == "<NaN>"

Entry(k, v) == [key |-> k, value |-> v]

Keys(order) == [i \in 1..Len(order) |-> order[i].key]

KeySet(order) == {order[i].key : i \in 1..Len(order)}

\* order[k] of a key the dict has
Get(order, k) == order[CHOOSE i \in 1..Len(order) : order[i].key = k].value

Range(seq) == {seq[i] : i \in 1..Len(seq)}

\* the list  columns  of queue_to_dataframe
CanonicalColumns ==
    <<"queue_position", "order_id", "customer", "quantity",
      "deadline", "priority", "description", "processed_at">>

\* column_mapping of queue_to_dataframe
ColumnLabel(field) ==
    CASE field = "queue_position" -> "Pozitsiya"
      [] field = "order_id" -> "Nomer zakaza"
      [] field = "customer" -> "Zakazchik"
      [] field = "quantity" -> "Kolichestvo"
      [] field = "deadline" -> "Srok sdachi"
      [] field = "priority" -> "Prioritet"
      [] field = "description" -> "Opisanie"
      [] field = "processed_at" -> "Data obrabotki"

\* the elements of a sequence, each once, in the order of first occurrence
RECURSIVE FirstOccurrences(_, _)
FirstOccurrences(seq, seen) ==
    IF seq = <<>> THEN <<>>
    ELSE IF Head(seq) \in seen THEN FirstOccurrences(Tail(seq), seen)
    ELSE <<Head(seq)>> \o FirstOccurrences(Tail(seq), seen \cup {Head(seq)})

RECURSIVE AllKeys(_)
AllKeys(queue) == IF queue = <<>> THEN <<>> ELSE Keys(Head(queue)) \o AllKeys(Tail(queue))

\* pd.DataFrame(queue): one column per key, in the order the keys first
\* occur, one row per job, NaN where the job lacks the key
DataFrame(queue) ==
    LET cols == FirstOccurrences(AllKeys(queue), {})
    IN  [columns |-> cols,
         cells |-> [i \in 1..Len(queue) |->
                      [c \in 1..Len(cols) |->
                          IF cols[c] \in KeySet(queue[i]) THEN Get(queue[i], cols[c])
                          ELSE NaN]]]

\* df[existing_columns]
SelectColumns(df, names) ==
    [columns |-> names,
     cells |-> [i \in 1..Len(df.cells) |->
                  [c \in 1..Len(names) |->
                      df.cells[i][CHOOSE k \in 1..Len(df.columns) : df.columns[k] = names[c]]]]]

\* the other columns taken along with priority_score
AllColumns(columns) ==
    LET InTable(col) == col \in Range(columns)
        existing_columns == SelectSeq(CanonicalColumns, InTable)
        Other(col) == col \notin Range(existing_columns)
    IN  existing_columns \o SelectSeq(columns, Other)

\* the columns in the order the table has them
TableOrderColumns(columns) ==
    LET Kept(col) == col # "priority_score"
    IN  SelectSeq(columns, Kept)

\* the list  existing_columns  when both loops are done
ExistingColumns(columns) ==
    LET InTable(col) == col \in Range(columns)
        existing_columns == SelectSeq(CanonicalColumns, InTable)
        Other(col) == col \notin Range(existing_columns) /\ col # "priority_score"
    IN  existing_columns \o SelectSeq(columns, Other)

queue_to_dataframe(queue) ==
    LET df == DataFrame(queue)
        result_df == SelectColumns(df, ExistingColumns(df.columns))
    IN  [result_df EXCEPT !.columns =
            [c \in 1..Len(result_df.columns) |->
                IF result_df.columns[c] \in Range(CanonicalColumns)
                THEN ColumnLabel(result_df.columns[c])
                ELSE result_df.columns[c]]]

\* rename_dict of dataframe_to_queue: the comprehension runs over the pairs
\* (k, v) = (label, field) of its column_mapping, keeps those whose v, the
\* field name, is a column of the table, and maps v to k
RenameDict(columns) == {f \in Range(CanonicalColumns) : f \in Range(columns)}

\* dict(zip(columns, row)) of to_dict(orient='records'): a column name that
\* occurs again keeps its first place and takes the value of the last column
\* of that name
DictOfPairs(names, row) ==
    LET keys == FirstOccurrences(names, {})
        Last(k) == CHOOSE c \in 1..Len(names) :
                       /\ names[c] = k
                       /\ \A j \in (c + 1)..Len(names) : names[j] # k
    IN  [i \in 1..Len(keys) |-> Entry(keys[i], row[Last(keys[i])])]

dataframe_to_queue(df) ==
    LET rename_dict == RenameDict(df.columns)
        renamed == [c \in 1..Len(df.columns) |->
                       IF df.columns[c] \in rename_dict
                       THEN ColumnLabel(df.columns[c])
                       ELSE df.columns[c]]
        record(i) == DictOfPairs(renamed, df.cells[i])
    IN  [i \in 1..Len(df.cells) |->
            IF "priority_score" \in Range(renamed)
            THEN record(i)
            ELSE Append(record(i), Entry("priority_score", None))]

\* the two conversions on queues of jobs with few keys in any order, and on
\* a job with all the canonical keys
FormatValue(k) ==
    CASE k = "queue_position" -> "1"
      [] k = "order_id" -> "A"
      [] k = "created_at" -> "t0"
      [] k = "deadline_error" -> "yes"
      [] k = "priority_score" -> "20"
      [] OTHER -> None

FormatKeys == {"queue_position", "order_id", "created_at", "priority_score"}

FormatDicts ==
    {[i \in 1..Len(ks) |-> Entry(ks[i], FormatValue(ks[i]))] :
        ks \in {q \in SeqsUpTo(FormatKeys, MaxFields) :
                   /\ Len(q) >= 1
                   /\ \A i, k \in 1..Len(q) : i # k => q[i] # q[k]}}
    \cup {<<Entry("deadline_error", "yes"), Entry("created_at", "t0")>>,
          <<Entry("created_at", "t1"), Entry("deadline_error", "yes")>>,
          <<Entry("processed_at", "t2"), Entry("description", None),
            Entry("priority", "p"), Entry("deadline", "d"), Entry("quantity", "5"),
            Entry("customer", "c"), Entry("order_id", "B"), Entry("queue_position", "2")>>}

FormatInit ==
    /\ config \in Configs
    /\ today \in ReferenceDates
    /\ result \in SeqsUpTo(FormatDicts, MaxFormatted)
    /\ current_queue = <<>>
    /\ new_orders = <<>>
    /\ raised = FALSE
    /\ lastOp = "load"
    /\ submitted = 0
    /\ returned = <<>>
    /\ args = NoArgs
    /\ Idle

QueueToDataframe ==
    /\ lastOp = "load"
    /\ current_queue' = result
    /\ returned' = queue_to_dataframe(result)
    /\ lastOp' = "to_table"
    /\ UNCHANGED <<config, today, result, new_orders, raised, submitted>>
    /\ UNCHANGED <<args, outside>>

\* dataframe_to_queue on the table queue_to_dataframe returned
DataframeToQueue ==
    /\ lastOp = "to_table"
    /\ result' = dataframe_to_queue(returned)
    /\ lastOp' = "from_table"
    /\ UNCHANGED <<config, today, current_queue, new_orders, raised, submitted, returned>>
    /\ UNCHANGED <<args, outside>>

FormatNext == QueueToDataframe \/ DataframeToQueue

FormatSpec == FormatInit /\ [][FormatNext]_vars

(***************************************************************************)
(* Construction (QueueManager.__init__) from a configuration document: the *)
(* value yaml.safe_load returns.  A mapping, and a key of a mapping, is    *)
(* "absent", "null" (present without a value, None) or "dict"; a setting   *)
(* is a number, or absent.  Weights are in tenths.                         *)
(***************************************************************************)
AbsentSetting == -1

PriorityFactors(kind, dw, pw) ==
    [kind |-> kind, deadline_weight |-> dw, customer_priority_weight |-> pw]

QueueSection(kind, pf, days) ==
    [kind |-> kind, priority_factors |-> pf, emergency_threshold_days |-> days]

NoFactors(kind) == PriorityFactors(kind, AbsentSetting, AbsentSetting)

NoSection(kind) == QueueSection(kind, NoFactors("absent"), AbsentSetting)

\* the empty document: yaml.safe_load returns None
EmptyDocument == [kind |-> "empty", queue |-> NoSection("absent")]

Documents ==
    {EmptyDocument}
    \cup {[kind |-> "dict", queue |-> NoSection(k)] : k \in {"absent", "null"}}
    \cup {[kind |-> "dict", queue |-> QueueSection("dict", pf, days)] :
            pf \in {NoFactors("absent"), NoFactors("null")}
                   \cup {PriorityFactors("dict", dw, pw) :
                           dw \in {AbsentSetting, 0, 5, 10}, pw \in {AbsentSetting, 0, 5, 10}},
            days \in {AbsentSetting, 0, 1, 5}}

\* .get on None raises AttributeError: the document itself, the queue
\* section, the priority_factors section
InitRaises(doc) ==
    \/ doc.kind = "empty"
    \/ doc.queue.kind = "null"
    \/ doc.queue.kind = "dict" /\ doc.queue.priority_factors.kind = "null"

\* dict.get(key, default)
GetSetting(setting, default) == IF setting = AbsentSetting THEN default ELSE setting

\* the three attributes of a manager constructed without an exception
LoadedConfig(doc) ==
    LET queue_config == IF doc.queue.kind = "dict" THEN doc.queue ELSE NoSection("absent")
        factors == IF queue_config.priority_factors.kind = "dict"
                   THEN queue_config.priority_factors ELSE NoFactors("absent")
    IN  [deadline_weight |->
             GetSetting(factors.deadline_weight, DefaultConfig.deadline_weight),
         customer_priority_weight |->
             GetSetting(factors.customer_priority_weight,
                        DefaultConfig.customer_priority_weight),
         emergency_threshold_days |->
             GetSetting(queue_config.emergency_threshold_days,
                        DefaultConfig.emergency_threshold_days)]

ConfigInit ==
    /\ config = None
    /\ today \in ReferenceDates
    /\ result = <<>>
    /\ current_queue = <<>>
    /\ new_orders = <<>>
    /\ raised = FALSE
    /\ lastOp = "load"
    /\ submitted = 0
    /\ returned = <<>>
    /\ args = NoArgs
    /\ document \in Documents
    /\ store = None
    /\ clock = 0
    /\ chat = None
    /\ history = <<>>
    /\ agent = None

\* QueueManager(config_path)
Construct ==
    /\ lastOp = "load"
    /\ lastOp' = "init"
    /\ IF InitRaises(document)
       THEN raised' = TRUE /\ config' = config
       ELSE raised' = FALSE /\ config' = LoadedConfig(document)
    /\ UNCHANGED <<today, current_queue, new_orders, result, submitted, returned>>
    /\ UNCHANGED <<args, outside>>

ConfigNext == Construct

ConfigSpec == ConfigInit /\ [][ConfigNext]_vars

(***************************************************************************)
(* The queue file (PrintQueueAgent.update_queue, ExcelHandler).  store     *)
(* tells whether the file exists (os.path.exists) and holds its sheet as a *)
(* table.                                                                  *)
(***************************************************************************)
File(sheet) == [exists |-> TRUE, sheet |-> sheet]

NoFile == [exists |-> FALSE, sheet |-> [columns |-> <<>>, cells |-> <<>>]]

\* DataFrame.empty: no row or no column
IsEmpty(df) == Len(df.columns) = 0 \/ Len(df.cells) = 0

ColumnIndex(df, name) == CHOOSE c \in 1..Len(df.columns) : df.columns[c] = name

\* df[key_column].astype(str) as a list
KeyColumn(df, key_column) ==
    [i \in 1..Len(df.cells) |-> df.cells[i][ColumnIndex(df, key_column)]]

\* index[0] of the rows with the key
FirstRow(df, key_column, key) ==
    CHOOSE i \in 1..Len(df.cells) :
        /\ KeyColumn(df, key_column)[i] = key
        /\ \A j \in 1..(i - 1) : KeyColumn(df, key_column)[j] # key

\* pd.concat([existing, rows_to_add], ignore_index=True)
Concat(existing, rows_to_add) ==
    LET New(col) == col \notin Range(existing.columns)
        columns == existing.columns \o SelectSeq(rows_to_add.columns, New)
        Cell(df, i, col) == IF col \in Range(df.columns)
                            THEN df.cells[i][ColumnIndex(df, col)] ELSE NaN
    IN  [columns |-> columns,
         cells |-> [i \in 1..Len(existing.cells) |->
                       [c \in 1..Len(columns) |-> Cell(existing, i, columns[c])]]
                   \o [i \in 1..Len(rows_to_add.cells) |->
                       [c \in 1..Len(columns) |-> Cell(rows_to_add, i, columns[c])]]]

_merge_dataframes(existing_df, new_df, key_column) ==
    LET existing_keys == Range(KeyColumn(existing_df, key_column))
        new_keys == Range(KeyColumn(new_df, key_column))
        keys_to_update == existing_keys \cap new_keys
        keys_to_add == new_keys \ existing_keys
        Updated(i) ==
            LET key == KeyColumn(existing_df, key_column)[i]
            IN  IF key \in keys_to_update /\ i = FirstRow(existing_df, key_column, key)
                THEN [c \in 1..Len(existing_df.columns) |->
                        IF existing_df.columns[c] \in Range(new_df.columns)
                        THEN new_df.cells[FirstRow(new_df, key_column, key)]
                                         [ColumnIndex(new_df, existing_df.columns[c])]
                        ELSE existing_df.cells[i][c]]
                ELSE existing_df.cells[i]
        existing == [existing_df EXCEPT
                        !.cells = [i \in 1..Len(existing_df.cells) |-> Updated(i)]]
        ToAdd(row) == row[ColumnIndex(new_df, key_column)] \in keys_to_add
        rows_to_add == [new_df EXCEPT !.cells = SelectSeq(new_df.cells, ToAdd)]
    IN  IF IsEmpty(rows_to_add) THEN existing ELSE Concat(existing, rows_to_add)

\* the table update_excel writes
update_excel(file, new_data, key_column) ==
    IF file.exists
    THEN IF key_column \in Range(file.sheet.columns) /\ key_column \in Range(new_data.columns)
         THEN _merge_dataframes(file.sheet, new_data, key_column)
         ELSE new_data
    ELSE new_data

\* the sheet create_empty_queue_file writes: the eight labels, no row
EmptyQueueFile ==
    [columns |-> [c \in 1..Len(CanonicalColumns) |-> ColumnLabel(CanonicalColumns[c])],
     cells |-> <<>>]

\* rows of a queue file: an order id and a customer
StoredRows ==
    {q \in SeqsUpTo({<<"A", "old">>, <<"B", "old">>}, MaxStored) :
        \A i, k \in 1..Len(q) : i # k => q[i][1] # q[k][1]}

\* the files update_queue may find: none, the empty template, a file with
\* rows under the labels, a file update_queue wrote (field names as columns)
QueueFiles ==
    {NoFile, File(EmptyQueueFile)}
    \cup {File([columns |-> <<"Nomer zakaza", "Zakazchik">>, cells |-> rows]) :
            rows \in StoredRows}
    \cup {File([columns |-> <<"order_id", "customer">>, cells |-> rows]) :
            rows \in StoredRows}

\* processed orders: with an order_id, with one more key, without order_id
ProcessedOrders ==
    {<<Entry("order_id", id), Entry("customer", "new")>> : id \in {"A", "B", "C"}}
    \cup {<<Entry("order_id", "A"), Entry("customer", "new"), Entry("deadline", "d")>>,
          <<Entry("customer", "new")>>}

UpdateInit ==
    /\ config \in Configs
    /\ today \in ReferenceDates
    /\ result = <<>>
    /\ current_queue = <<>>
    /\ new_orders = <<>>
    /\ raised = FALSE
    /\ lastOp = "load"
    /\ submitted = 0
    /\ returned = <<>>
    /\ args = NoArgs
    /\ document = None
    /\ store \in QueueFiles
    /\ clock = 0
    /\ chat = None
    /\ history = <<>>
    /\ agent = None

\* PrintQueueAgent.update_queue(processed_orders, queue_file_path);
\* current_queue keeps the file as the call found it
UpdateQueue(processed_orders) ==
    /\ lastOp = "load"
    /\ lastOp' = "update"
    /\ new_orders' = processed_orders
    /\ current_queue' = store
    /\ LET new_queue_df == DataFrame(processed_orders)
       IN  IF IsEmpty(new_queue_df)
           THEN /\ returned' = [status |-> "no_changes", queue_data |-> <<>>]
                /\ store' = store
           ELSE /\ returned' = [status |-> "updated", queue_data |-> processed_orders]
                /\ store' = File(update_excel(store, new_queue_df, "order_id"))
    /\ UNCHANGED <<config, today, result, raised, submitted, args, document, clock, chat,
                 history, agent>>

UpdateNext == \E processed_orders \in SeqsUpTo(ProcessedOrders, MaxJobs) :
                  UpdateQueue(processed_orders)

UpdateSpec == UpdateInit /\ [][UpdateNext]_vars

(***************************************************************************)
(* Processing cycles: the stored table is read, turned into a queue, merged *)
(* with a batch, turned into a table and stored.  The jobs are dicts, the   *)
(* merge and the sort read them with get and write priority_score and       *)
(* queue_position into them.  A position is written as its numeral, the way *)
(* the cells of a table hold it.                                            *)
(***************************************************************************)
MaxCycles == 3

\* order.get(k)
DictGet(order, k) == IF k \in KeySet(order) THEN Get(order, k) ELSE None

\* order[k] = v: a key the dict has keeps its place, a new key goes last
DictSet(order, k, v) ==
    IF k \in KeySet(order)
    THEN [i \in 1..Len(order) |-> IF order[i].key = k THEN Entry(k, v) ELSE order[i]]
    ELSE Append(order, Entry(k, v))

Numerals == <<"1", "2", "3", "4", "5", "6", "7", "8", "9", "10", "11", "12">>

\* the deadline and the priority hint the scorer reads from a dict
DeadlineOfCell(v) ==
    CASE v = "29.02.2024" -> Dmy(29, 2, 2024)
      [] v = "05.03.2024" -> Dmy(5, 3, 2024)
      [] OTHER -> NoDeadline

ScoredFields(order) ==
    [deadline |-> DeadlineOfCell(DictGet(order, "deadline")),
     priority |-> IF "priority" \in KeySet(order) THEN KwUrgent ELSE MissingText]

\* queue[i] = order
ReplaceAt(queue, i, order) ==
    SubSeq(queue, 1, i - 1) \o <<order>> \o SubSeq(queue, i + 1, Len(queue))

\* the loop  for order in new_orders  of merge_with_existing_queue on dicts
RECURSIVE MergeDicts(_, _, _)
MergeDicts(orders, queue, existing_order_ids) ==
    IF orders = <<>> THEN queue
    ELSE LET order == Head(orders)
             order_id == DictGet(order, "order_id")
         IN  IF Truthy(order_id) /\ order_id \notin existing_order_ids
             THEN MergeDicts(Tail(orders), queue \o <<order>>,
                             existing_order_ids \cup {order_id})
             ELSE IF order_id \in existing_order_ids
             THEN LET i == CHOOSE k \in 1..Len(queue) :
                               /\ DictGet(queue[k], "order_id") = order_id
                               /\ \A j \in 1..(k - 1) :
                                      DictGet(queue[j], "order_id") # order_id
                      queue_position == DictGet(queue[i], "queue_position")
                  IN  MergeDicts(Tail(orders),
                                 ReplaceAt(queue, i,
                                           IF queue_position # None
                                           THEN DictSet(order, "queue_position",
                                                        queue_position)
                                           ELSE order),
                                 existing_order_ids)
             ELSE MergeDicts(Tail(orders), queue, existing_order_ids)

\* sort_orders on dicts: every dict gets its priority_score, then sorted()
SortDicts(orders, cfg, now) ==
    LET scored == [i \in 1..Len(orders) |->
                     [order |-> orders[i],
                      priority_score |->
                          _calculate_priority_score(ScoredFields(orders[i]), cfg, now)]]
        sorted_orders == Sorted(SubSeq(scored, 1, Len(scored)))
    IN  [i \in 1..Len(sorted_orders) |->
            DictSet(sorted_orders[i].order, "priority_score",
                    sorted_orders[i].priority_score)]

\* for i, order in enumerate(queue): order['queue_position'] = i + 1
NumberDicts(queue) ==
    [i \in 1..Len(queue) |-> DictSet(queue[i], "queue_position", Numerals[i])]

\* merge_with_existing_queue on dicts
MergeDictQueue(orders, queue, cfg, now) ==
    LET current_queue_ == SubSeq(queue, 1, Len(queue))
        existing_order_ids == {DictGet(current_queue_[i], "order_id") :
                                  i \in 1..Len(current_queue_)}
    IN  NumberDicts(SortDicts(MergeDicts(orders, current_queue_, existing_order_ids),
                              cfg, now))

\* the batches of the cycles: a job, the same order again with another
\* customer, a second order, a job without order_id
CycleBatches ==
    LET first == <<Entry("order_id", "A"), Entry("customer", "c1"),
                   Entry("deadline", "05.03.2024")>>
        again == <<Entry("order_id", "A"), Entry("customer", "c2"),
                   Entry("deadline", "05.03.2024")>>
        other == <<Entry("order_id", "B"), Entry("customer", "c1"),
                   Entry("deadline", "29.02.2024"), Entry("priority", "srochno")>>
        bare == <<Entry("customer", "c3")>>
    IN  {<<first>>, <<again>>, <<other>>, <<bare>>, <<first, other>>, <<other, again>>}

CycleInit ==
    /\ config \in Configs
    /\ today \in ReferenceDates
    /\ result = <<>>
    /\ current_queue = <<>>
    /\ new_orders = <<>>
    /\ raised = FALSE
    /\ lastOp = "load"
    /\ submitted = 0
    /\ returned = <<>>
    /\ args = NoArgs
    /\ document = None
    /\ store = File(EmptyQueueFile)
    /\ clock = 0
    /\ chat = None
    /\ history = {}
    /\ agent = None

\* one processing cycle; current_queue keeps the table the cycle read,
\* history the order ids submitted so far
ProcessingCycle(batch) ==
    /\ submitted < MaxCycles
    /\ submitted' = submitted + 1
    /\ lastOp' = "cycle"
    /\ current_queue' = store.sheet
    /\ new_orders' = batch
    /\ store' = File(queue_to_dataframe(
                        MergeDictQueue(batch, dataframe_to_queue(store.sheet),
                                       config, today)))
    /\ history' = history \cup {id \in {DictGet(batch[i], "order_id") : i \in 1..Len(batch)} :
                                  Truthy(id)}
    /\ UNCHANGED <<config, today, result, raised, returned, args, document, clock, chat,
                   agent>>

CycleNext == \E batch \in CycleBatches : ProcessingCycle(batch)

CycleSpec == CycleInit /\ [][CycleNext]_vars

(***************************************************************************)
(* add_order.  The clock counts whole seconds, the resolution of the       *)
(* timestamp in the generated identifier; calls between two ticks fall in  *)
(* the same second.  history keeps, per call, the order handed in, the     *)
(* identifier returned and the second of the call.                         *)
(***************************************************************************)
MaxAdded == 3

MaxSeconds == 2

\* datetime.now().strftime("%Y%m%d%H%M%S") behind "ORD-", by second
OrderIdAt(second) ==
    <<"ORD-20240228120000", "ORD-20240228120001", "ORD-20240228120002",
      "ORD-20240228120003", "ORD-20240228120004", "ORD-20240228120005">>[second + 1]

\* datetime.now().strftime("%d.%m.%Y %H:%M:%S"), by second
CreatedAt(second) ==
    <<"28.02.2024 12:00:00", "28.02.2024 12:00:01", "28.02.2024 12:00:02",
      "28.02.2024 12:00:03", "28.02.2024 12:00:04", "28.02.2024 12:00:05">>[second + 1]

\* if 'order_id' not in order_data or not order_data['order_id']
WithOrderId(order_data, second) ==
    IF "order_id" \notin KeySet(order_data) \/ ~Truthy(Get(order_data, "order_id"))
    THEN DictSet(order_data, "order_id", OrderIdAt(second))
    ELSE order_data

\* if 'created_at' not in order_data
WithCreatedAt(order_data, second) ==
    IF "created_at" \notin KeySet(order_data)
    THEN DictSet(order_data, "created_at", CreatedAt(second))
    ELSE order_data

\* if 'status' not in order_data
WithStatus(order_data) ==
    IF "status" \notin KeySet(order_data)
    THEN DictSet(order_data, "status", "Novyy")
    ELSE order_data

\* get_current_queue(): the list the queue manager loads
get_current_queue == <<>>

\* the dict order_data when add_order has returned: the three defaults, then
\* the sort and the numbering of the list get_current_queue() gave with the
\* order appended; save_queue writes nothing
add_order(order_data, second, cfg, now) ==
    LET order == WithStatus(WithCreatedAt(WithOrderId(order_data, second), second))
        sorted_queue == NumberDicts(SortDicts(get_current_queue \o <<order>>, cfg, now))
    IN  sorted_queue[CHOOSE i \in 1..Len(sorted_queue) :
                         Get(sorted_queue[i], "order_id") = Get(order, "order_id")]

\* get_order_by_id(order_id): the order, or None
get_order_by_id(order_id) ==
    IF \E i \in 1..Len(get_current_queue) :
           DictGet(get_current_queue[i], "order_id") = order_id
    THEN get_current_queue[CHOOSE i \in 1..Len(get_current_queue) :
                               DictGet(get_current_queue[i], "order_id") = order_id]
    ELSE <<>>

\* orders handed to add_order: with no order_id, an empty one or the id A,
\* with and without created_at
AddedOrders ==
    {ids \o <<Entry("customer", "c1")>> \o stamp :
        ids \in {<<>>, <<Entry("order_id", "")>>, <<Entry("order_id", "A")>>},
        stamp \in {<<>>, <<Entry("created_at", "27.02.2024 09:00:00")>>}}

AddInit ==
    /\ config \in Configs
    /\ today \in ReferenceDates
    /\ result = <<>>
    /\ current_queue = <<>>
    /\ new_orders = <<>>
    /\ raised = FALSE
    /\ lastOp = "load"
    /\ submitted = 0
    /\ returned = None
    /\ args = NoArgs
    /\ document = None
    /\ store = None
    /\ clock = 0
    /\ chat = None
    /\ history = <<>>
    /\ agent = None

\* add_order(order_data); current_queue keeps the dict as it was handed in,
\* new_orders the dict after the call, result what get_current_queue()
\* gives after the call
AddOrder(order_data) ==
    /\ Len(history) < MaxAdded
    /\ lastOp' = "add"
    /\ current_queue' = <<order_data>>
    /\ new_orders' = <<add_order(order_data, clock, config, today)>>
    /\ returned' = Get(new_orders'[1], "order_id")
    /\ result' = get_current_queue
    /\ history' = Append(history, [given |-> order_data, id |-> returned', second |-> clock])
    /\ UNCHANGED <<config, today, raised, submitted, args, document, store, clock, chat,
                   agent>>

\* a second passes
Tick ==
    /\ clock < MaxSeconds
    /\ clock' = clock + 1
    /\ UNCHANGED <<config, today, current_queue, new_orders, result, raised, lastOp,
                   submitted, returned, args, document, store, chat, history, agent>>

AddNext == (\E order_data \in AddedOrders : AddOrder(order_data)) \/ Tick

AddSpec == AddInit /\ [][AddNext]_vars

(***************************************************************************)
(* The order conversation of the Telegram bot, for one chat.  chat holds   *)
(* the state of the ConversationHandler for the chat (conv), user_data     *)
(* (its keys state and order_data), the entry of order_data_storage for    *)
(* the chat, the number of orders extracted so far and the orders whose    *)
(* creation the user cancelled.  An order is the number of its extraction, *)
(* NoOrder stands for an absent key.  history lists the orders handed to   *)
(* add_order.  The handlers of a state and the entry points are called     *)
(* with the update; button_callback hands the callback query on.           *)
(***************************************************************************)
MaxExtracted == 2

MaxConfirmed == 3

NoOrder == 0

NoUserData == [state |-> "none", order_data |-> NoOrder]

\* context.user_data.clear()
Cleared(c) == [c EXCEPT !.user_data = NoUserData]

\* ended tells how the conversation last came to its end ("no" before the
\* first end and after every entry); returned names the function that
\* answered the update
ChatInit ==
    /\ config \in Configs
    /\ today \in ReferenceDates
    /\ result = <<>>
    /\ current_queue = <<>>
    /\ new_orders = <<>>
    /\ raised = FALSE
    /\ lastOp = "load"
    /\ submitted = 0
    /\ returned = None
    /\ args = NoArgs
    /\ document = None
    /\ store = None
    /\ clock = 0
    /\ chat = [conv |-> "END", user_data |-> NoUserData, order_data_storage |-> NoOrder,
               extracted |-> 0, cancelled |-> {}, ended |-> "no"]
    /\ history = <<>>
    /\ agent = None

ChatFrame ==
    UNCHANGED <<config, today, result, current_queue, new_orders, submitted,
                args, document, store, clock, agent>>

\* /new_order: an entry point in every state (allow_reentry); cmd_new_order
\* sets the key state and leaves the other keys
CmdNewOrder ==
    /\ chat' = [chat EXCEPT !.conv = "WAIT_ORDER_TEXT",
                            !.user_data.state = "WAIT_ORDER_TEXT",
                            !.ended = "no"]
    /\ lastOp' = "new_order"
    /\ returned' = "cmd_new_order"
    /\ raised' = FALSE
    /\ history' = history
    /\ ChatFrame

\* the button of a new order: the entry point calls cmd_new_order_callback
\* with the update, which clears user_data, sets the key state and raises on
\* query.edit_message_text; the conversation keeps its state
PressNewOrder ==
    /\ chat' = [Cleared(chat) EXCEPT !.user_data.state = "WAIT_ORDER_TEXT"]
    /\ lastOp' = "new_order_button"
    /\ returned' = "cmd_new_order_callback"
    /\ raised' = TRUE
    /\ history' = history
    /\ ChatFrame

\* process_order_text with a data processor, on a text that is no menu
\* command: the extracted order goes to user_data and to order_data_storage;
\* when the extraction raises the conversation ends and user_data stays
process_order_text(c, extracts) ==
    IF c.user_data.state # "WAIT_ORDER_TEXT"
    THEN [c EXCEPT !.conv = "END", !.ended = "ignored"]
    ELSE IF extracts
    THEN [c EXCEPT !.user_data.order_data = c.extracted + 1,
                   !.order_data_storage = c.extracted + 1,
                   !.extracted = c.extracted + 1,
                   !.conv = "WAIT_CONFIRM"]
    ELSE [c EXCEPT !.conv = "END", !.ended = "error"]

\* what echo does with a text message, by the key state of user_data
EchoReply(c) ==
    CASE c.user_data.state = "WAIT_ORDER_TEXT" -> "process_order_text"
      [] c.user_data.state = "WAIT_CONFIRM" -> "reminder"
      [] OTHER -> "menu"

\* a text message: in WAIT_ORDER_TEXT the handler of the state; elsewhere no
\* handler of the conversation takes it and echo calls process_order_text
\* when the key state says so, the value it returns being dropped
OrderText(extracts) ==
    /\ chat.extracted < MaxExtracted
    /\ IF chat.conv = "WAIT_ORDER_TEXT"
       THEN /\ chat' = process_order_text(chat, extracts)
            /\ returned' = "process_order_text"
       ELSE /\ chat' = IF EchoReply(chat) = "process_order_text"
                       THEN [process_order_text(chat, extracts)
                                 EXCEPT !.conv = chat.conv, !.ended = chat.ended]
                       ELSE chat
            /\ returned' = EchoReply(chat)
    /\ lastOp' = "text"
    /\ raised' = FALSE
    /\ history' = history
    /\ ChatFrame

\* the order confirm_order_callback finds: user_data first, then the entry
\* of order_data_storage for the chat
FoundOrder(c) ==
    IF c.user_data.order_data # NoOrder THEN c.user_data.order_data
    ELSE c.order_data_storage

\* the button confirm of any message that shows it.  In WAIT_CONFIRM the
\* handler of the state calls confirm_order_callback with the update:
\* query.message is None, the except branch raises on
\* query.edit_message_text, nothing changes.  In WAIT_ORDER_TEXT the
\* fallback button_callback calls it with the callback query.  With no
\* conversation no handler takes the update.
PressConfirm ==
    /\ Len(history) < MaxConfirmed
    /\ lastOp' = "confirm"
    /\ IF chat.conv = "WAIT_CONFIRM"
       THEN /\ raised' = TRUE
            /\ returned' = "confirm_order_callback"
            /\ chat' = chat
            /\ history' = history
       ELSE IF chat.conv = "WAIT_ORDER_TEXT"
       THEN /\ raised' = FALSE
            /\ returned' = "confirm_order_callback"
            /\ chat' = [Cleared(chat) EXCEPT !.conv = "END", !.ended = "confirm"]
            /\ history' = IF FoundOrder(chat) # NoOrder
                          THEN Append(history, FoundOrder(chat))
                          ELSE history
       ELSE /\ raised' = FALSE
            /\ returned' = None
            /\ chat' = chat
            /\ history' = history
    /\ ChatFrame

\* the order whose creation a cancel gives up: the one user_data holds
Cancel(c) ==
    [Cleared(c) EXCEPT !.cancelled =
        IF c.user_data.order_data # NoOrder
        THEN c.cancelled \cup {c.user_data.order_data}
        ELSE c.cancelled]

\* the button cancel: in WAIT_CONFIRM cancel_order_callback gets the
\* update, clears user_data and raises on query.edit_message_text; in
\* WAIT_ORDER_TEXT button_callback hands it the query and the conversation
\* ends
PressCancel ==
    /\ lastOp' = "cancel_button"
    /\ IF chat.conv = "WAIT_CONFIRM"
       THEN raised' = TRUE /\ chat' = Cancel(chat)
                           /\ returned' = "cancel_order_callback"
       ELSE IF chat.conv = "WAIT_ORDER_TEXT"
       THEN raised' = FALSE /\ chat' = [Cancel(chat) EXCEPT !.conv = "END",
                                                            !.ended = "cancel"]
                            /\ returned' = "cancel_order_callback"
       ELSE raised' = FALSE /\ chat' = chat /\ returned' = None
    /\ history' = history
    /\ ChatFrame

\* /cancel: the fallback cancel_order inside a conversation, unknown_command
\* outside
CmdCancel ==
    /\ lastOp' = "cancel"
    /\ raised' = FALSE
    /\ IF chat.conv # "END"
       THEN /\ chat' = [Cancel(chat) EXCEPT !.conv = "END", !.ended = "cancel"]
            /\ returned' = "cancel_order"
       ELSE /\ chat' = chat
            /\ returned' = "unknown_command"
    /\ history' = history
    /\ ChatFrame

ChatNext ==
    \/ CmdNewOrder
    \/ PressNewOrder
    \/ \E extracts \in BOOLEAN : OrderText(extracts)
    \/ PressConfirm
    \/ PressCancel
    \/ CmdCancel

ChatSpec == ChatInit /\ [][ChatNext]_vars

(***************************************************************************)
(* The processing cycles of PrintQueueAgent against the drive.  store is   *)
(* the drive: whether the queue file is there, the orders it holds (an     *)
(* order is told by its number here, the merge of the rows is the subject  *)
(* of the sections above), the order text files waiting in the orders      *)
(* folder (the file of order n is told by n) and the order text files      *)
(* deleted so far.  history is the outcome of every call of the last       *)
(* cycle that can fail: what the two downloads gave, which text files      *)
(* were read and extracted, which of them delete_file removed, what the    *)
(* model extracted from the orders file, whether update_queue raised       *)
(* inside, whether the upload went through.                                *)
(***************************************************************************)
MaxDriveOrders == 2

DriveOrders == 1..MaxDriveOrders

NoCalls == [orders |-> "none", queue |-> "none", read |-> {}, removed |-> {},
            extracted |-> {}, update |-> "none", upload |-> FALSE]

\* download_file gives a path, or None when the file is not found and when
\* the search or the transfer fails
DownloadOutcomes(there) == IF there THEN {"ok", "error"} ELSE {"absent"}

CycleCalls(drive) ==
    [orders : {"ok", "error"}, queue : DownloadOutcomes(drive.exists),
     read : SUBSET drive.txt, removed : SUBSET drive.txt,
     extracted : SUBSET DriveOrders, update : {"updated", "error"}, upload : BOOLEAN]

\* PrintQueueAgent defines no method send_notifications: the call raises
\* AttributeError
HasSendNotifications == FALSE

DriveInit ==
    /\ config \in Configs
    /\ today \in ReferenceDates
    /\ result = <<>>
    /\ current_queue = <<>>
    /\ new_orders = <<>>
    /\ raised = FALSE
    /\ lastOp = "load"
    /\ submitted = 0
    /\ returned = None
    /\ args = NoArgs
    /\ document = None
    /\ \E there \in BOOLEAN, held \in SUBSET DriveOrders :
          /\ there \/ held = {}
          /\ store = [exists |-> there, queue |-> held, txt |-> {}, deleted |-> {}]
    /\ clock = 0
    /\ chat = None
    /\ history = NoCalls
    /\ agent = None

DriveFrame ==
    UNCHANGED <<config, today, result, current_queue, new_orders, raised, submitted,
                args, document, clock, chat, agent>>

\* download_files_from_gdrive: {} without the orders file; the queue file as
\* downloaded, or a newly created empty one whenever download_file gave None
download_files_from_gdrive(drive, calls) ==
    IF calls.orders # "ok"
    THEN [got |-> FALSE, queue |-> {}]
    ELSE IF calls.queue = "ok"
    THEN [got |-> TRUE, queue |-> drive.queue]
    ELSE [got |-> TRUE, queue |-> {}]

\* update_queue: the new orders are written into the local queue file
update_queue(queue_file, processed_orders) == queue_file \cup processed_orders

\* upload_files_to_gdrive: the local queue file replaces the remote one or
\* creates it; a failed upload leaves the drive as it is
upload_files_to_gdrive(drive, queue_file, calls) ==
    IF calls.upload
    THEN [drive EXCEPT !.exists = TRUE, !.queue = queue_file]
    ELSE drive

\* run_queue_processing: the status returned and the drive left behind
run_queue_processing(drive, calls) ==
    LET files == download_files_from_gdrive(drive, calls)
    IN  IF ~files.got
        THEN [status |-> "error", drive |-> drive]
        ELSE IF calls.extracted = {}
        THEN [status |-> "no_orders", drive |-> drive]
        ELSE IF calls.update = "error"
        THEN [status |-> "error", drive |-> drive]
        ELSE [status |-> IF HasSendNotifications THEN "success" ELSE "error",
              drive |-> upload_files_to_gdrive(
                            drive, update_queue(files.queue, calls.extracted), calls)]

\* check_new_order_files: every text file that was read and extracted is
\* deleted inside the loop; the queue is downloaded, updated and uploaded
\* after the loop
check_new_order_files(drive, calls) ==
    LET looped == [drive EXCEPT !.txt = @ \ calls.removed,
                                !.deleted = @ \cup calls.removed]
        files == download_files_from_gdrive(drive, calls)
    IN  IF calls.read = {} \/ ~files.got \/ calls.update = "error"
        THEN looped
        ELSE upload_files_to_gdrive(looped, update_queue(files.queue, calls.read), calls)

RunQueueProcessing ==
    \E calls \in CycleCalls(store) :
       /\ calls.read = {} /\ calls.removed = {}
       /\ store' = run_queue_processing(store, calls).drive
       /\ returned' = run_queue_processing(store, calls).status
       /\ history' = calls
       /\ lastOp' = "run_queue_processing"
       /\ DriveFrame

CheckNewOrderFiles ==
    \E calls \in CycleCalls(store) :
       /\ calls.removed \subseteq calls.read
       /\ calls.extracted = {}
       /\ store' = check_new_order_files(store, calls)
       /\ returned' = None
       /\ history' = calls
       /\ lastOp' = "check_new_order_files"
       /\ DriveFrame

\* a customer puts the text file of a new order into the orders folder
DropOrderFile ==
    \E n \in DriveOrders \ (store.txt \cup store.deleted \cup store.queue) :
       /\ store' = [store EXCEPT !.txt = @ \cup {n}]
       /\ lastOp' = "drop"
       /\ UNCHANGED <<returned, history>>
       /\ DriveFrame

DriveNext ==
    \/ RunQueueProcessing
    \/ CheckNewOrderFiles
    \/ DropOrderFile

DriveSpec == DriveInit /\ [][DriveNext]_vars

(***************************************************************************)
(* The file monitor of PrintQueueAgent.  agent holds should_run, the       *)
(* threads created so far, background_thread (the number of a thread,      *)
(* NoThread for None) and whether the caller is inside the join of         *)
(* stop_monitoring.  start_monitoring and stop_monitoring are called from  *)
(* one thread, the main one.  A thread is a record of the place it has     *)
(* reached in monitor_file_changes and of the seconds it has slept in the  *)
(* polling wait: "loop" before the test of while self.should_run, "watch"  *)
(* in watch_folder, "process" in run_queue_processing, "check" in          *)
(* check_new_order_files, "wait" in the polling wait, "backoff" in the     *)
(* sleep of the except branch, "done" when monitor_file_changes has        *)
(* returned.  The join with its timeout of 10 seconds can time out only on *)
(* a thread that is inside a call or inside the sleep of 60 seconds.       *)
(***************************************************************************)
MaxThreads == 4

\* check_interval_minutes * 60, in seconds
MaxSleepInterval == 2

NoThread == 0

Thread(at) == [at |-> at, slept |-> 0]

IsAlive(a, t) == t # NoThread /\ a.threads[t].at # "done"

InsideCall == {"watch", "process", "check", "backoff"}

\* variant: the loop never looks at should_run
LoopForever(a, t) == [a EXCEPT !.threads[t] = Thread("watch")]

\* variant: a thread is created whatever background_thread is
StartAnyway(a) ==
    [a EXCEPT !.should_run = TRUE,
              !.threads = a.threads \o <<Thread("loop")>>,
              !.background_thread = Len(a.threads) + 1]

\* PrintQueueAgent.__init__: should_run = True, background_thread = None
MonitorInit ==
    /\ config \in Configs
    /\ today \in ReferenceDates
    /\ result = <<>>
    /\ current_queue = <<>>
    /\ new_orders = <<>>
    /\ raised = FALSE
    /\ lastOp = "load"
    /\ submitted = 0
    /\ returned = None
    /\ args = NoArgs
    /\ document = None
    /\ store = None
    /\ clock = 0
    /\ chat = None
    /\ history = <<>>
    /\ agent = [should_run |-> TRUE, threads |-> <<>>, background_thread |-> NoThread,
                joining |-> FALSE]

MonitorFrame ==
    UNCHANGED <<config, today, result, current_queue, new_orders, raised, submitted,
                returned, args, document, store, clock, chat, history>>

\* start_monitoring: the running thread is handed back as it is, otherwise
\* should_run is set and a new thread started
start_monitoring(a) ==
    IF IsAlive(a, a.background_thread)
    THEN a
    ELSE [a EXCEPT !.should_run = TRUE,
                   !.threads = a.threads \o <<Thread("loop")>>,
                   !.background_thread = Len(a.threads) + 1]

StartMonitoring ==
    /\ ~agent.joining
    /\ Len(agent.threads) < MaxThreads
    /\ agent' = start_monitoring(agent)
    /\ lastOp' = "start"
    /\ MonitorFrame

\* stop_monitoring up to the join: nothing without a live thread
StopMonitoring ==
    /\ ~agent.joining
    /\ lastOp' = "stop"
    /\ agent' = IF IsAlive(agent, agent.background_thread)
                THEN [agent EXCEPT !.should_run = FALSE, !.joining = TRUE]
                ELSE agent
    /\ MonitorFrame

\* background_thread.join(timeout=10) returns: the thread is over, or the
\* ten seconds are
JoinReturns ==
    /\ agent.joining
    /\ agent.threads[agent.background_thread].at \in InsideCall \cup {"done"}
    /\ agent' = [agent EXCEPT !.joining = FALSE]
    /\ lastOp' = lastOp
    /\ MonitorFrame

\* while self.should_run
LoopTest(a, t) ==
    IF a.should_run THEN [a EXCEPT !.threads[t] = Thread("watch")]
    ELSE [a EXCEPT !.threads[t] = Thread("done")]

\* one turn of the polling wait: break when should_run is off, sleep a
\* second, or the interval is over
PollingWait(a, t) ==
    IF ~a.should_run \/ a.threads[t].slept >= MaxSleepInterval
    THEN [a EXCEPT !.threads[t] = Thread("loop")]
    ELSE [a EXCEPT !.threads[t].slept = @ + 1]

\* the places a call of the try block leads to: its return (after
\* watch_folder run_queue_processing when the orders file has changed) or
\* the except branch
AfterCall(at) ==
    CASE at = "watch" -> {"process", "check", "backoff"}
      [] at = "process" -> {"check", "backoff"}
      [] at = "check" -> {"wait", "backoff"}
      [] at = "backoff" -> {"loop"}

\* one step of monitor_file_changes in thread t
MonitorStep(t) ==
    /\ t \in 1..Len(agent.threads)
    /\ \/ /\ agent.threads[t].at = "loop"
          /\ agent' = LoopTest(agent, t)
       \/ /\ agent.threads[t].at \in InsideCall
          /\ \E next \in AfterCall(agent.threads[t].at) :
                agent' = [agent EXCEPT !.threads[t] = Thread(next)]
       \/ /\ agent.threads[t].at = "wait"
          /\ agent' = PollingWait(agent, t)
    /\ lastOp' = lastOp
    /\ MonitorFrame

MonitorNext ==
    \/ StartMonitoring
    \/ StopMonitoring
    \/ JoinReturns
    \/ \E t \in 1..MaxThreads : MonitorStep(t)

MonitorSpec == MonitorInit /\ [][MonitorNext]_vars

\* every thread that can take a step takes one in the end (the calls it
\* makes return), and a join returns
MonitorFairSpec ==
    /\ MonitorSpec
    /\ \A t \in 1..MaxThreads : WF_vars(MonitorStep(t))
    /\ WF_vars(JoinReturns)

(***************************************************************************)
(* Vocabulary of the properties.                                           *)
(***************************************************************************)
Merged == lastOp = "merge" /\ ~raised

SortedOnce == lastOp = "sort" /\ ~raised

\* a job without the two fields every sort and merge rewrites
Strip(job) == [job EXCEPT !.queue_position = NoPos, !.priority_score = NoScore]

\* the non-empty order_ids of a list of jobs
Ids(jobs) == {jobs[i].order_id : i \in {k \in 1..Len(jobs) : Truthy(jobs[k].order_id)}}

\* number of jobs of the list that satisfy Test
Count(jobs, Test(_)) == Cardinality({i \in 1..Len(jobs) : Test(jobs[i])})

\* the last job of the batch with that order_id
LastWithId(jobs, id) ==
    jobs[CHOOSE i \in 1..Len(jobs) :
            /\ jobs[i].order_id = id
            /\ \A k \in (i + 1)..Len(jobs) : jobs[k].order_id # id]

NonDecreasing(jobs) ==
    \A i, k \in 1..Len(jobs) : i < k => jobs[i].priority_score <= jobs[k].priority_score

Numbered(jobs) == \A i \in 1..Len(jobs) : jobs[i].queue_position = i

\* C1: after every merge of a run of merges, each fed the queue the call
\* before returned, the returned queue is numbered 1..N in list order and its
\* scores never decrease along the list.
C1_MergeNumbersAndOrders == Merged => Numbered(result) /\ NonDecreasing(result)

\* a second merge of a run: its new job went ahead of two jobs that were
\* numbered 1 and 2 by the merge before
C1_Witness ==
    /\ Merged
    /\ submitted = 2
    /\ Len(new_orders) = 1
    /\ Len(current_queue) >= 2
    /\ Numbered(current_queue)
    /\ Strip(result[1]) = Strip(new_orders[1])
    /\ result[2].order_id = current_queue[1].order_id

\* C2: for a queue Q of non-empty, pairwise distinct order_ids and any batch
\* N, the non-empty order_ids of merge(N, Q) are exactly ids(Q) \cup ids(N)
\* and each of them is on exactly one job.
C2_MergeUnion ==
    (/\ Merged
     /\ \A i \in 1..Len(current_queue) : Truthy(current_queue[i].order_id)
     /\ UniqueIds(current_queue))
    => /\ Ids(result) = Ids(current_queue) \cup Ids(new_orders)
       /\ \A id \in Ids(result) :
              Cardinality({i \in 1..Len(result) : result[i].order_id = id}) = 1

\* a queue of jobs with order_ids, and a batch that names an order_id twice
\* which the queue does not hold
C2_Witness ==
    /\ Merged
    /\ Len(current_queue) >= 1
    /\ \A i \in 1..Len(current_queue) : Truthy(current_queue[i].order_id)
    /\ Len(new_orders) = 2
    /\ Truthy(new_orders[1].order_id)
    /\ new_orders[1].order_id = new_orders[2].order_id
    /\ new_orders[1].order_id \notin Ids(current_queue)

\* the batch without its k-th job
Without(jobs, k) == SubSeq(jobs, 1, k - 1) \o SubSeq(jobs, k + 1, Len(jobs))

\* the jobs of the list, stripped, as a bag: how often each one occurs
Occurrences(jobs, job) == Cardinality({i \in 1..Len(jobs) : Strip(jobs[i]) = job})

\* C3: a new job without order_id (empty or missing) is always inserted as a
\* fresh entry: the merged queue has one entry more than it has without that
\* job, and every entry of the current queue is still in the merged queue.
C3_EmptyIdAlwaysInserted ==
    Merged =>
      \A k \in 1..Len(new_orders) :
          ~Truthy(new_orders[k].order_id)
          => /\ Len(result)
                  = Len(MergedQueue(Without(new_orders, k), current_queue)) + 1
             /\ \A i \in 1..Len(current_queue) :
                    current_queue[i].order_id \notin Ids(new_orders)
                    => Occurrences(result, Strip(current_queue[i]))
                         >= Occurrences(current_queue, Strip(current_queue[i]))

C5_StampsKept ==
    Merged =>
      \A i \in 1..Len(current_queue) : \A k \in 1..Len(result) :
          (/\ current_queue[i].order_id \in Ids(new_orders)
           /\ result[k].order_id = current_queue[i].order_id)
          => /\ result[k].processed_at = current_queue[i].processed_at
             /\ result[k].created_at = current_queue[i].created_at

\* C6: when a batch holds two different jobs with one non-empty order_id and
\* the call reports nothing to its caller (it returns a queue), both jobs are
\* in the returned queue.
C6_CollisionNotDropped ==
    Merged =>
      \A i, k \in 1..Len(new_orders) :
          (/\ i < k
           /\ Truthy(new_orders[i].order_id)
           /\ new_orders[i].order_id = new_orders[k].order_id
           /\ new_orders[i] # new_orders[k])
          => /\ Occurrences(result, Strip(new_orders[i])) >= 1
             /\ Occurrences(result, Strip(new_orders[k])) >= 1

\* C7: sort_orders gives the job at index i of the list it returns the
\* queue_position i + 1 (lists counted from 0; here from 1, so position i).
C7_SortNumbers == (lastOp \in {"sort", "resort"} /\ ~raised) => Numbered(result)

Rearrangements(n) == {p \in [1..n -> 1..n] : \A i, k \in 1..n : i # k => p[i] # p[k]}

\* C8: sort_orders returns a permutation of its input in which every job has
\* the score computed from its own fields (whatever score it had before),
\* scores never decrease along the list, and jobs of equal score are in the
\* order they had in the input.
C8_SortStablePermutation ==
    SortedOnce =>
      /\ NonDecreasing(result)
      /\ \E p \in Rearrangements(Len(current_queue)) :
             /\ Len(result) = Len(current_queue)
             /\ \A i \in 1..Len(result) :
                    result[i] = [current_queue[p[i]] EXCEPT !.priority_score =
                                   _calculate_priority_score(current_queue[p[i]],
                                                             config, today)]
             /\ \A i, k \in 1..Len(result) :
                    (i < k /\ result[i].priority_score = result[k].priority_score)
                    => p[i] < p[k]

\* an input that was out of order, with jobs that carried an outdated score,
\* and two different jobs that get the same score
C8_Witness ==
    /\ SortedOnce
    /\ Len(current_queue) >= 3
    /\ \E i \in 1..Len(current_queue) : current_queue[i].priority_score = 0
    /\ Strip(result[1]) # Strip(current_queue[1])
    /\ \E i, k \in 1..Len(result) :
           /\ i < k
           /\ result[i].priority_score = result[k].priority_score
           /\ result[i] # result[k]

\* C9: with the reference date fixed, sorting the list sort_orders returned
\* gives the same jobs in the same order with the same queue_position values.
C9_SortIdempotent == lastOp = "resort" => result = current_queue

\* a list sorted twice that has two different jobs of equal score and jobs
\* whose queue_position is not their place in the list
C9_Witness ==
    /\ lastOp = "resort"
    /\ Len(result) >= 3
    /\ ~Numbered(result)
    /\ \E i, k \in 1..Len(result) :
           /\ i < k
           /\ result[i].priority_score = result[k].priority_score
           /\ result[i] # result[k]

\* C10: merge([], Q) returns the jobs of sort_orders(Q) in the same order,
\* numbered 1..N.
C10_MergeIdentity ==
    (Merged /\ new_orders = <<>>)
    => result = Renumber(sort_orders(current_queue, config, today))

\* an empty batch merged into a queue that was out of order and holds a job
\* without order_id
C10_Witness ==
    /\ Merged
    /\ new_orders = <<>>
    /\ Len(current_queue) >= 2
    /\ Strip(result[1]) # Strip(current_queue[1])
    /\ \E i \in 1..Len(current_queue) : ~Truthy(current_queue[i].order_id)

\* score of a job under the configuration and reference date of the run
FreshScore(job) == _calculate_priority_score(job, config, today)

\* C11: merging one new job (not an update of a queue job) whose score is
\* strictly lower than that of every job of a current queue in score order
\* puts the new job at queue_position 1 and every existing job one position
\* further down, the existing jobs in their old order.
C11_NewJobGoesFirst ==
    (/\ Merged
     /\ Len(new_orders) = 1
     /\ new_orders[1].order_id \notin OrderIds(current_queue)
     /\ \A i \in 1..Len(current_queue) :
            FreshScore(new_orders[1]) < FreshScore(current_queue[i])
     /\ \A i, k \in 1..Len(current_queue) :
            i < k => FreshScore(current_queue[i]) <= FreshScore(current_queue[k]))
    => /\ Len(result) = Len(current_queue) + 1
       /\ Strip(result[1]) = Strip(new_orders[1])
       /\ result[1].queue_position = 1
       /\ \A i \in 1..Len(current_queue) :
              /\ Strip(result[i + 1]) = Strip(current_queue[i])
              /\ result[i + 1].queue_position = i + 1

MarkedUrgent(job) == Contains(Lower(job.priority), KwUrgent)

DaysLeft(job) == _calculate_days_to_deadline(job.deadline, today)

\* C12: in a sorted queue no job with a normal hint is ahead of a job marked
\* urgent, and the urgent jobs are in the order of their deadlines, nearest
\* first (threshold 3, default weights); so (normal, 1 day), (urgent, 5
\* days), (urgent, 2 days) come out as urgent/2, urgent/5, normal/1.
C12_UrgentFirst ==
    SortedOnce =>
      \A i, k \in 1..Len(result) :
          i < k => /\ ~(~MarkedUrgent(result[i]) /\ MarkedUrgent(result[k]))
                   /\ (MarkedUrgent(result[i]) /\ MarkedUrgent(result[k]))
                      => DaysLeft(result[i]) <= DaysLeft(result[k])

Scored == lastOp = "score" /\ ~raised

\* the urgency band of the claims: 1 up to the threshold, 3 beyond it
Bucket(days) == IF days <= config.emergency_threshold_days THEN 1 ELSE 3

\* twice the modifier of the claims, read off the hint: 0.5 for a hint with
\* the urgent or the high keyword in any case, else 2.0 for the low keyword,
\* else 1.0
ModifierOf(hint) ==
    IF hint \in {KwUrgent, KwUrgentCaps, KwHigh, LowAndUrgent} THEN 1
    ELSE IF hint = KwLow THEN 4
    ELSE 2

\* C13: every score the scorer returns is days * deadline_weight + bucket *
\* modifier * priority_weight (here times 20), with bucket 1 up to the
\* emergency threshold and 3 beyond it, and modifier 0.5 for an urgent or
\* high hint (also when the hint has the low keyword too), 2.0 for a low
\* hint, 1.0 otherwise.
C13_ScoreFormula ==
    Scored =>
      /\ Len(returned) = Len(result)
      /\ \A i \in 1..Len(result) :
             returned[i] = DaysLeft(result[i]) * (2 * config.deadline_weight)
                           + Bucket(DaysLeft(result[i])) * ModifierOf(result[i].priority)
                             * config.customer_priority_weight

C13_Witness ==
    /\ Scored
    /\ Len(result) = 2
    /\ result[1].priority = LowAndUrgent
    /\ result[2].priority = KwLow
    /\ Bucket(DaysLeft(result[1])) = 1
    /\ Bucket(DaysLeft(result[2])) = 3
    /\ returned[1] < returned[2]

\* C14: for two jobs with the same hint under one configuration, the job
\* with fewer days left has the lower or the same score; from threshold days
\* to threshold + 1 days the score grows by one deadline_weight plus
\* 2 * modifier * priority_weight (here times 20).
C14_ScoreMonotone ==
    Scored =>
      \A i, k \in 1..Len(result) :
          (result[i].priority = result[k].priority) =>
            /\ DaysLeft(result[i]) <= DaysLeft(result[k]) => returned[i] <= returned[k]
            /\ (/\ DaysLeft(result[i]) = config.emergency_threshold_days
                /\ DaysLeft(result[k]) = config.emergency_threshold_days + 1)
               => returned[k] - returned[i]
                    = 2 * config.deadline_weight
                      + 2 * ModifierOf(result[i].priority) * config.customer_priority_weight

C14_Witness ==
    /\ Scored
    /\ Len(result) = 2
    /\ result[1].priority = result[2].priority
    /\ DaysLeft(result[1]) = config.emergency_threshold_days
    /\ DaysLeft(result[2]) = config.emergency_threshold_days + 1
    /\ returned[1] < returned[2]
    /\ config.deadline_weight = 0

Clocked == lastOp = "clock"

\* a deadline that names a day of the calendar
ValidDate(dl) == dl.kind = "dmy" /\ dl \notin NotOnCalendar

\* a is a day before b
Earlier(a, b) ==
    \/ a.y < b.y
    \/ a.y = b.y /\ a.m < b.m
    \/ a.y = b.y /\ a.m = b.m /\ a.d < b.d

\* the day after a day of the calendar
NextDay(a) ==
    IF a.d < DaysInMonth(a.m, a.y) THEN Dmy(a.d + 1, a.m, a.y)
    ELSE IF a.m < 12 THEN Dmy(1, a.m + 1, a.y)
    ELSE Dmy(1, 1, a.y + 1)

\* the first day of the month after that of a
NextMonth(a) == IF a.m < 12 THEN Dmy(1, a.m + 1, a.y) ELSE Dmy(1, 1, a.y + 1)

\* the number of days to go from a to b, a not after b, counted along the
\* calendar: to the end of the month of a, then month by month
RECURSIVE DaysFromTo(_, _)
DaysFromTo(a, b) ==
    IF a.y = b.y /\ a.m = b.m THEN b.d - a.d
    ELSE (DaysInMonth(a.m, a.y) - a.d + 1) + DaysFromTo(NextMonth(a), b)

\* C15: _calculate_days_to_deadline returns a number for every deadline
\* without raising: 999 for a missing or empty deadline, for a value that is
\* not a day.month.year string and for a day.month.year string that names no
\* calendar day; 0 for a date before the reference date; the exact number of
\* days from the reference date for a date on or after it (today 0, tomorrow
\* 1, a week ahead 7).
C15_DaysToDeadlineTotal ==
    Clocked =>
      /\ ~raised
      /\ Len(returned) = Len(result)
      /\ \A i \in 1..Len(result) :
           LET dl == result[i].deadline
           IN  /\ ~ValidDate(dl) => returned[i] = 999
               /\ (ValidDate(dl) /\ Earlier(dl, today)) => returned[i] = 0
               /\ (ValidDate(dl) /\ ~Earlier(dl, today))
                  => returned[i] = DaysFromTo(today, dl)
               /\ dl = today => returned[i] = 0
               /\ dl = NextDay(today) => returned[i] = 1
               /\ dl = NextDay(NextDay(NextDay(NextDay(NextDay(NextDay(NextDay(today)))))))
                  => returned[i] = 7

C15_Witness ==
    /\ Clocked
    /\ today = Dmy(28, 2, 2024)
    /\ Len(result) = 2
    /\ result[1].deadline = Dmy(6, 3, 2024)
    /\ returned[1] = 7
    /\ result[2].deadline = Dmy(31, 2, 2024)
    /\ returned[2] = 999

\* C16: of two deadlines that name calendar days, put to the clock on the
\* same reference date, the earlier one has no more days left than the
\* later one.
C16_EarlierHasFewerDays ==
    Clocked =>
      \A i, k \in 1..Len(result) :
          (/\ ValidDate(result[i].deadline)
           /\ ValidDate(result[k].deadline)
           /\ Earlier(result[i].deadline, result[k].deadline))
          => returned[i] <= returned[k]

C16_Witness ==
    /\ Clocked
    /\ Len(result) = 2
    /\ Earlier(result[1].deadline, result[2].deadline)
    /\ Earlier(result[2].deadline, today)
    /\ ValidDate(result[1].deadline)
    /\ returned = <<0, 0>>

\* C17: no call of sort_orders, merge_with_existing_queue or
\* identify_problematic_orders raises, whatever the fields of the jobs hold:
\* a priority that is None, a deadline that is not a string.
C17_NothingRaises == ~raised

Scanned == lastOp = "identify" /\ ~raised

\* the problems the claims give a job, the deadline read along the calendar
ExpectedDeadlineProblem(dl) ==
    IF dl \in {NoDeadline, EmptyDeadline} THEN <<Problem("missing deadline")>>
    ELSE IF ~ValidDate(dl) THEN <<Problem("invalid deadline format")>>
    ELSE IF Earlier(dl, today) THEN <<ProblemDays("overdue", DaysFromTo(dl, today))>>
    ELSE IF DaysFromTo(today, dl) <= config.emergency_threshold_days
    THEN <<ProblemDays("urgent", DaysFromTo(today, dl))>>
    ELSE <<>>

ExpectedProblems(job) ==
    (IF job.order_id \in {None, ""} THEN <<Problem("missing order number")>> ELSE <<>>)
    \o (IF job.customer \in {None, ""} THEN <<Problem("missing customer")>> ELSE <<>>)
    \o (IF job.quantity \in {None, ""} THEN <<Problem("missing quantity")>> ELSE <<>>)
    \o ExpectedDeadlineProblem(job.deadline)

\* the places of the scanned queue whose job has a problem
Flagged == {i \in 1..Len(current_queue) : ExpectedProblems(current_queue[i]) # <<>>}

\* the place in the report of the job at place i of the queue
ReportIndex(i) == Cardinality({j \in Flagged : j <= i})

\* C18: the scan returns, in queue order, one entry for every job with at
\* least one problem and none for the other jobs; the entry has the fields
\* of the job and the list of all its problems: missing order number,
\* missing customer, missing quantity, then at most one of overdue by N days
\* (a date before today, N the days past), urgent with N days left (a date
\* 0 to emergency_threshold_days days ahead), invalid deadline format (a
\* deadline that does not parse), missing deadline (no deadline).
C18_ScanReport ==
    Scanned =>
      /\ Len(returned) = Cardinality(Flagged)
      /\ \A i \in Flagged :
           LET job == current_queue[i]
               entry == returned[ReportIndex(i)]
           IN  /\ DOMAIN entry = DOMAIN job \cup {"problems"}
               /\ \A f \in DOMAIN job : entry[f] = job[f]
               /\ entry.problems = ExpectedProblems(job)

C18_Witness ==
    /\ Scanned
    /\ Len(current_queue) = 2
    /\ Len(returned) = 1
    /\ current_queue[1].deadline = InDays4
    /\ returned[1].problems = <<Problem("missing order number"), Problem("missing customer"),
                                Problem("missing quantity"), ProblemDays("overdue", 59)>>

\* C19: after a scan the queue handed to it holds the same jobs in the same
\* order with the same fields, and no job of it has a problems field.
C19_ScanLeavesQueue ==
    lastOp = "identify" =>
      /\ result = current_queue
      /\ \A i \in 1..Len(result) : "problems" \notin DOMAIN result[i]

C19_Witness ==
    /\ Scanned
    /\ Len(result) = 2
    /\ Len(returned) = 2
    /\ "problems" \in DOMAIN returned[1]
    /\ returned[2].problems # returned[1].problems

\* a day.month.year string that names no calendar day
BadDate(job) == job.deadline.kind = "dmy" /\ job.deadline \in NotOnCalendar

DeadlineMessages(problems) ==
    {problems[k].problem : k \in 1..Len(problems)}
    \cap {"overdue", "urgent", "missing deadline", "invalid deadline format"}

\* C20: a job whose deadline is a day.month.year string that names no
\* calendar day (31.02.2024) is reported by the scan with the invalid
\* deadline format problem and no overdue, urgent or missing deadline
\* problem; the clock gives it 999 days and the sorter the score of 999
\* days; none of the three raises on it (the scan raises only on a deadline
\* that is not a string, the sorter only on a priority that is not one).
C20_BadDateFlaggedAndScored ==
    /\ (lastOp = "identify" /\ ~ScanRaises(current_queue)) =>
         /\ ~raised
         /\ \A i \in 1..Len(current_queue) :
                BadDate(current_queue[i]) =>
                  /\ i \in Flagged
                  /\ ReportIndex(i) \in 1..Len(returned)
                  /\ returned[ReportIndex(i)].order_id = current_queue[i].order_id
                  /\ DeadlineMessages(returned[ReportIndex(i)].problems)
                        = {"invalid deadline format"}
    /\ lastOp = "clock" =>
         /\ ~raised
         /\ \A i \in 1..Len(result) : BadDate(result[i]) => returned[i] = 999
    /\ (lastOp = "sort" /\ ~SortRaises(current_queue)) =>
         /\ ~raised
         /\ \A i \in 1..Len(result) :
                BadDate(result[i]) =>
                  result[i].priority_score
                     = 999 * (2 * config.deadline_weight)
                       + 3 * ModifierOf(result[i].priority) * config.customer_priority_weight

C20_Witness ==
    /\ Scanned
    /\ Len(current_queue) = 2
    /\ BadDate(current_queue[2])
    /\ current_queue[1].deadline = Yesterday
    /\ Len(returned) = 2
    /\ returned[2].problems = <<Problem("invalid deadline format")>>

\* the keys of a dict other than priority_score
KeptKeys(order) == KeySet(order) \ {"priority_score"}

\* C21: the queue that dataframe_to_queue makes of the table that
\* queue_to_dataframe made of a queue has the same jobs in the same order,
\* each with the same keys and the same values, priority_score set aside: a
\* key a job did not have it does not have afterwards.
C21_RoundTrip ==
    lastOp = "from_table" =>
      /\ Len(result) = Len(current_queue)
      /\ \A i \in 1..Len(current_queue) :
             /\ KeptKeys(result[i]) = KeptKeys(current_queue[i])
             /\ \A k \in KeptKeys(current_queue[i]) :
                    Get(result[i], k) = Get(current_queue[i], k)

\* the field a display label stands for; any other column name stands for
\* itself
FieldOfLabel(name) ==
    CASE name = "Pozitsiya" -> "queue_position"
      [] name = "Nomer zakaza" -> "order_id"
      [] name = "Zakazchik" -> "customer"
      [] name = "Kolichestvo" -> "quantity"
      [] name = "Srok sdachi" -> "deadline"
      [] name = "Prioritet" -> "priority"
      [] name = "Opisanie" -> "description"
      [] name = "Data obrabotki" -> "processed_at"
      [] OTHER -> name

\* C22: the jobs dataframe_to_queue makes of a table have, column by column,
\* the field name for each of the eight display labels and the name of the
\* column itself for every other column.
C22_LabelsInverted ==
    lastOp = "from_table" =>
      \A i \in 1..Len(result) :
          \A c \in 1..Len(returned.columns) :
              /\ c <= Len(result[i])
              /\ result[i][c].key = FieldOfLabel(returned.columns[c])

\* the place of the first job that has the key, and the place of the key in
\* that job
FirstJobWith(k) == CHOOSE i \in 1..Len(current_queue) :
    /\ k \in KeySet(current_queue[i])
    /\ \A j \in 1..(i - 1) : k \notin KeySet(current_queue[j])

PlaceIn(order, k) == CHOOSE i \in 1..Len(order) : order[i].key = k

OccursBefore(a, b) ==
    \/ FirstJobWith(a) < FirstJobWith(b)
    \/ /\ FirstJobWith(a) = FirstJobWith(b)
       /\ PlaceIn(current_queue[FirstJobWith(a)], a) < PlaceIn(current_queue[FirstJobWith(a)], b)

CanonicalPlace(field) == CHOOSE i \in 1..Len(CanonicalColumns) : CanonicalColumns[i] = field

IsCanonical(name) == FieldOfLabel(name) # name

\* C23: the columns of the table are the keys of the jobs without
\* priority_score, each once: first the canonical ones under their labels
\* in the order position, order number, customer, quantity, deadline,
\* priority, description, processed-at, then the others in the order of
\* their first occurrence in the queue.
C23_ColumnOrder ==
    lastOp = "to_table" =>
      LET cols == returned.columns
          fields == [c \in 1..Len(cols) |-> FieldOfLabel(cols[c])]
      IN  /\ Range(fields) = UNION {KeptKeys(current_queue[i]) : i \in 1..Len(current_queue)}
          /\ \A c, e \in 1..Len(cols) : c # e => cols[c] # cols[e]
          /\ \A c \in 1..Len(cols) :
                 fields[c] \in Range(CanonicalColumns) <=> IsCanonical(cols[c])
          /\ \A c, e \in 1..Len(cols) :
               c < e =>
                 /\ ~(~IsCanonical(cols[c]) /\ IsCanonical(cols[e]))
                 /\ (IsCanonical(cols[c]) /\ IsCanonical(cols[e]))
                    => CanonicalPlace(fields[c]) < CanonicalPlace(fields[e])
                 /\ (~IsCanonical(cols[c]) /\ ~IsCanonical(cols[e]))
                    => OccursBefore(fields[c], fields[e])
          /\ Len(returned.cells) = Len(current_queue)

C23_Witness ==
    /\ lastOp = "to_table"
    /\ Len(current_queue) = 2
    /\ Keys(current_queue[1]) = <<"priority_score", "created_at">>
    /\ returned.columns = <<"Pozitsiya", "Nomer zakaza", "Zakazchik", "Kolichestvo",
                            "Srok sdachi", "Prioritet", "Opisanie", "Data obrabotki",
                            "created_at">>

\* a setting of the document, AbsentSetting when it or a section around it
\* is absent or null
Setting(name) ==
    IF document.kind # "dict" \/ document.queue.kind # "dict" THEN AbsentSetting
    ELSE IF name = "emergency_threshold_days" THEN document.queue.emergency_threshold_days
    ELSE IF document.queue.priority_factors.kind # "dict" THEN AbsentSetting
    ELSE document.queue.priority_factors[name]

\* C24: constructing the manager succeeds for every document, whichever of
\* the settings and sections it lacks (the empty document too), and every
\* setting the document lacks has its default: deadline weight 0.7, priority
\* weight 0.3, emergency threshold 3 days; every setting it has is taken.
C24_AbsentSettingsDefaulted ==
    lastOp = "init" =>
      /\ ~raised
      /\ config.deadline_weight
           = (IF Setting("deadline_weight") = AbsentSetting THEN 7
              ELSE Setting("deadline_weight"))
      /\ config.customer_priority_weight
           = (IF Setting("customer_priority_weight") = AbsentSetting THEN 3
              ELSE Setting("customer_priority_weight"))
      /\ config.emergency_threshold_days
           = (IF Setting("emergency_threshold_days") = AbsentSetting THEN 3
              ELSE Setting("emergency_threshold_days"))

\* the order ids a queue file holds, under the label or the field name
FileIds(file) ==
    IF ~file.exists THEN {}
    ELSE {file.sheet.cells[i][c] : i \in 1..Len(file.sheet.cells),
                                   c \in {k \in 1..Len(file.sheet.columns) :
                                             FieldOfLabel(file.sheet.columns[k]) = "order_id"}}
         \ {NaN, None}

\* the order ids of a list of dicts
DictIds(orders) ==
    {Get(orders[i], "order_id") : i \in {k \in 1..Len(orders) : "order_id" \in KeySet(orders[k])}}

\* C25: after update_queue with at least one new order, every order id the
\* queue file held before the call is still in the file, every order id of
\* the new orders is in it, and the result reports the queue of both: the
\* orders the file held and the new ones.
C25_UpdateKeepsQueue ==
    (lastOp = "update" /\ new_orders # <<>>) =>
      /\ returned.status = "updated"
      /\ FileIds(current_queue) \subseteq FileIds(store)
      /\ DictIds(new_orders) \subseteq FileIds(store)
      /\ DictIds(returned.queue_data) = FileIds(current_queue) \cup DictIds(new_orders)

\* C26: when merge_with_existing_queue or sort_orders has returned, the
\* list current_queue handed to it has the length and the elements it had,
\* and every job of the two argument lists has the fields and values it
\* had.
C26_ArgumentsUntouched ==
    (lastOp \in {"merge", "sort"} /\ ~raised) =>
      /\ args.current_queue = current_queue
      /\ args.new_orders = new_orders

\* the order ids the rows of a stored table hold under the label of order_id
IdColumns(df) == {c \in 1..Len(df.columns) : df.columns[c] = ColumnLabel("order_id")}

RowIds(df, i) == {df.cells[i][c] : c \in IdColumns(df)} \ {NaN, None, ""}

StoredIds(df) == UNION {RowIds(df, i) : i \in 1..Len(df.cells)}

\* C27: after every processing cycle no two rows of the stored table hold
\* the same non-empty order id, and the order ids the table holds are the
\* non-empty order ids of all the batches submitted so far.
C27_StoredIdsUnique ==
    lastOp = "cycle" =>
      /\ \A i, k \in 1..Len(store.sheet.cells) :
             i # k => RowIds(store.sheet, i) \cap RowIds(store.sheet, k) = {}
      /\ StoredIds(store.sheet) = history

HasId(order_data) == "order_id" \in KeySet(order_data) /\ Truthy(Get(order_data, "order_id"))

\* C28: when add_order has returned the id X, get_current_queue() holds an
\* order with order_id X, get_order_by_id(X) returns that order, and the
\* orders of the earlier add_order calls are still in the queue.
C28_AddedOrderInQueue ==
    lastOp = "add" =>
      /\ \E i \in 1..Len(result) : DictGet(result[i], "order_id") = returned
      /\ get_order_by_id(returned) # <<>>
      /\ \A k \in 1..Len(history) :
             \E i \in 1..Len(result) : DictGet(result[i], "order_id") = history[k].id

\* C29: two add_order calls for orders without an order_id return different
\* ids, also within one second; an order with a non-empty order_id keeps
\* it, and created_at is written only into an order that has none.
C29_GeneratedIdsUnique ==
    /\ \A i, k \in 1..Len(history) :
           (i # k /\ ~HasId(history[i].given) /\ ~HasId(history[k].given))
               => history[i].id # history[k].id
    /\ lastOp = "add" =>
         /\ HasId(current_queue[1]) => returned = Get(current_queue[1], "order_id")
         /\ "created_at" \in KeySet(current_queue[1])
                => Get(new_orders[1], "created_at") = Get(current_queue[1], "created_at")
         /\ "created_at" \notin KeySet(current_queue[1])
                => Get(new_orders[1], "created_at") = CreatedAt(history[Len(history)].second)

\* C30: the order a confirm callback hands to add_order is none the user
\* cancelled and none that add_order was handed before.
C30_NoOrderResurrected ==
    /\ \A i \in 1..Len(history) : history[i] \notin chat.cancelled
    /\ \A i, k \in 1..Len(history) : i # k => history[i] # history[k]

\* C31: a text message that comes while the conversation awaits the
\* confirmation is answered with the reminder and leaves the pending
\* order_data as it is; a text message that comes after the conversation
\* has ended is not handed to process_order_text.
C31_FlagFollowsConversation ==
    [][lastOp' = "text" =>
         /\ chat.conv = "WAIT_CONFIRM" =>
                /\ returned' = "reminder"
                /\ chat'.user_data.order_data = chat.user_data.order_data
         /\ (chat.conv = "END" /\ chat.ended # "no") =>
                returned' # "process_order_text"]_vars

AliveThreads == {t \in 1..Len(agent.threads) : IsAlive(agent, t)}

\* C32: when start_monitoring was the last of the two calls to return, the
\* monitor runs: should_run is set and the thread of background_thread is
\* alive.
C32_StartedMonitorRuns ==
    lastOp = "start" =>
      /\ agent.should_run
      /\ IsAlive(agent, agent.background_thread)

\* C33: once should_run is off while a monitor thread is alive the thread
\* comes to its end, and never are two monitor threads alive.
C33_MonitorStops ==
    /\ (~agent.should_run) ~> (AliveThreads = {})
    /\ [](Cardinality(AliveThreads) <= 1)

\* a stop has found the thread inside the sleep of the except branch
C33_Witness ==
    /\ ~agent.should_run
    /\ agent.joining
    /\ agent.threads[agent.background_thread].at = "backoff"

\* C34: an order text file that has been deleted from the drive has its
\* order in the remote queue file.
C34_DeletedOrderInQueue ==
    store.deleted \subseteq store.queue

\* C35: a cycle whose download of the queue file failed on a queue file
\* that is on the drive leaves the remote queue file as it was.
C35_FailedDownloadKeepsQueue ==
    [][(lastOp' \in {"run_queue_processing", "check_new_order_files"}
          /\ history'.orders = "ok" /\ history'.queue = "error")
       => store'.queue = store.queue]_vars

\* C36: run_queue_processing returns error, no_orders or success; success
\* when the downloads, the extraction, the update and the upload succeed;
\* and with error the remote queue file is as it was before the cycle.
C36_StatusTellsOutcome ==
    [][lastOp' = "run_queue_processing" =>
         /\ returned' \in {"error", "no_orders", "success"}
         /\ (/\ history'.orders = "ok" /\ history'.queue # "error"
             /\ history'.extracted # {} /\ history'.update = "updated"
             /\ history'.upload) => returned' = "success"
         /\ returned' = "error" => store' = store]_vars

\* the order_ids the merge inserted: those of the batch that the queue did
\* not hold
InsertedIds == {new_orders[i].order_id : i \in 1..Len(new_orders)} \ OrderIds(current_queue)

BatchIds == {new_orders[i].order_id : i \in 1..Len(new_orders)}

Tied(i, k) == i # k /\ result[i].priority_score = result[k].priority_score

C37_TwoInsertedTied ==
    /\ lastOp = "merge" /\ ~raised
    /\ \E i, k \in 1..Len(result) :
          /\ Tied(i, k)
          /\ result[i].order_id \in InsertedIds
          /\ result[k].order_id \in InsertedIds
          /\ result[i].order_id # result[k].order_id

C37_UpdatedTied ==
    /\ lastOp = "merge" /\ ~raised
    /\ \E i, k \in 1..Len(result) :
          /\ Tied(i, k)
          /\ Truthy(result[i].order_id) /\ Truthy(result[k].order_id)
          /\ result[i].order_id \in OrderIds(current_queue) \cap BatchIds
          /\ result[k].order_id \in OrderIds(current_queue)
          /\ current_queue[FirstIndex(current_queue, result[i].order_id)].priority_score
                     = result[i].priority_score

\* C38: in a sorted list no job without a usable deadline stands ahead of a
\* job with a valid deadline and the same priority hint.
C38_NoDeadlineNeverAhead ==
    (lastOp \in {"sort", "resort"} /\ ~raised) =>
       \A i, k \in 1..Len(result) :
          (/\ i < k
           /\ Unusable(result[i].deadline)
           /\ result[i].priority = result[k].priority)
             => Unusable(result[k].deadline)

====
